---- MODULE Spec2Model ----
(***************************************************************************)
(* A model of the daily oil-balance pipeline (main.py, data_prep.py,       *)
(* inputs.py, calculate.py, json_export.py).                               *)
(*                                                                         *)
(* Numbers.  Python floats are modelled as exact fixed-point numbers: an   *)
(* integer counts 1/Scale of a tonne, so T(1500) is 1500.0 and T(2400)+500 *)
(* is 2400.5.  Sums, differences and the rounding to a step are exact; a   *)
(* quotient or a product with a coefficient is kept to 1/Scale of a tonne  *)
(* (DivN, Ratio, MulK, Half), so the properties checked are stated on      *)
(* inputs where the quotients they depend on are exact.                    *)
(*                                                                         *)
(* Python None and pandas NaN are the empty sequence, a present value v is *)
(* the one-element sequence <<v>>.  A dict is a function whose DOMAIN is   *)
(* the set of keys present.                                                *)
(***************************************************************************)
EXTENDS Integers, Sequences, FiniteSets, TLC

VARIABLES
    input_json,          \* the document input.json: [ok |-> parses, doc |-> dict]
    input_config_cache,  \* data_prep._input_config_cache
    master_df,           \* the Source table built by build_all_data()
    master_df_indexed,   \* data_prep._master_df_indexed
    monthly_cache,       \* data_prep._monthly_cache
    warning_cache,       \* data_prep._warning_cache
    today,               \* the run's month (what datetime.now() yields in get_day)
    inputs_config,       \* inputs._config
    result_rows,         \* main: the rows of the days processed so far
    alarm_flag,          \* main: alarm_flag
    alarm_msg,           \* main: alarm_msg
    output,              \* the document written by export_to_json
    pc,                  \* position of the driver
    ret                  \* the last call and what it returned

envVars == <<input_json, master_df, today>>
dpVars == <<input_config_cache, master_df_indexed, monthly_cache, warning_cache>>
runVars == <<inputs_config, result_rows, alarm_flag, alarm_msg, output>>

vars == <<envVars, dpVars, runVars, pc, ret>>

-----------------------------------------------------------------------------
(* Bounds of the model *)

Scale == 1000
MaxLen == 2

T(x) == x * Scale

-----------------------------------------------------------------------------
(* Python values *)

None == <<>>
Some(v) == <<v>>
IsNone(o) == o = <<>>
Val(o) == o[1]

EmptyDict == <<>>
DictGet(d, k, default) == IF k \in DOMAIN d THEN d[k] ELSE default

\* JSON values of input.json
JNull == [k |-> "null"]
JNum(v) == [k |-> "num", num |-> v]
JStr(s) == [k |-> "str", str |-> s]      \* s: Some(n) for the text of a number n, None otherwise
JList(s) == [k |-> "list", list |-> s]

\* A call either returns a value or raises
Return(v) == [exc |-> FALSE, val |-> v]
Raise == [exc |-> TRUE]

-----------------------------------------------------------------------------
(* Calendar: dates are [month, day] of one non-leap year *)

monthrange(m) ==
    CASE m \in {1, 3, 5, 7, 8, 10, 12} -> 31
      [] m \in {4, 6, 9, 11} -> 30
      [] OTHER -> 28

Date(m, d) == [month |-> m, day |-> d]

\* n - timedelta(days=1)
prev_day_of(n) ==
    IF n.day > 1 THEN Date(n.month, n.day - 1)
    ELSE LET pm == IF n.month = 1 THEN 12 ELSE n.month - 1
         IN Date(pm, monthrange(pm))

\* n.replace(day=1) - timedelta(days=1)
prev_month_of(n) == prev_day_of(Date(n.month, 1))

\* loader.get_day: the dates of the current month, in order
get_day(m) == [i \in 1..monthrange(m) |-> Date(m, i)]

-----------------------------------------------------------------------------
(* data_prep: configuration and caches *)

\* A variant of the loaders that takes the document's content without
\* regard to whether it parses.
LoadInputJson_Unchecked == input_json.doc

\* data_prep._get_input_config: the parsed document, or {} when it cannot be read.
\* The value is cached on the first call and reused afterwards.
LoadInputJson == IF input_json.ok THEN input_json.doc ELSE EmptyDict

get_input_config ==
    IF IsNone(input_config_cache) THEN LoadInputJson ELSE Val(input_config_cache)

\* data_prep.init_monthly_cache: the cache is built once; a second call returns early
RowInMonth(row, month) == row.date.month = month

MonthSlice(df, month) == SelectSeq(df.rows, LAMBDA row : RowInMonth(row, month))

BuildMonthlyCache(df) ==
    [m \in {x \in 1..12 : \E i \in 1..Len(df.rows) : RowInMonth(df.rows[i], x)} |->
        [columns |-> df.columns, rows |-> MonthSlice(df, m)]]

-----------------------------------------------------------------------------
(* data_prep: the value resolver *)

\* df[column_name].values: the column's cells in row order
ColumnValues(rows, column_name) == [i \in 1..Len(rows) |-> rows[i].cells[column_name]]

\* float(x) for a JSON scalar x of monthly_data
float(j) ==
    CASE j.k = "num" -> Return(j.num)
      [] j.k = "str" -> IF IsNone(j.str) THEN Raise ELSE Return(Val(j.str))
      [] OTHER -> Raise

\* np.array(value, dtype=float) for a JSON list: null becomes NaN
RECURSIVE np_array(_)
np_array(s) ==
    IF s = <<>> THEN Return(<<>>)
    ELSE LET h == IF Head(s).k = "null" THEN Return(None)
                  ELSE LET f == float(Head(s))
                       IN IF f.exc THEN Raise ELSE Return(Some(f.val))
             t == np_array(Tail(s))
         IN IF h.exc \/ t.exc THEN Raise ELSE Return(<<h.val>> \o t.val)

\* "column_name in monthly_data and monthly_data[column_name] is not None"
HasOverride(monthly_data, column_name) ==
    /\ column_name \in DOMAIN monthly_data
    /\ monthly_data[column_name].k # "null"

\* _safe_get_month_values, lines 148-157: the override branch
MonthOverride(value) ==
    IF value.k = "list" THEN np_array(value.list)
    ELSE LET f == float(value)
         IN IF f.exc THEN Raise ELSE Return(<<Some(f.val)>>)

\* _safe_get_month_values, as a function of the state it reads
MonthValues(monthly_data, cache, df, month, column_name, default) ==
    IF HasOverride(monthly_data, column_name)
    THEN MonthOverride(monthly_data[column_name])
    ELSE IF ~IsNone(cache) /\ month \in DOMAIN Val(cache)
    THEN LET month_df == Val(cache)[month]
         IN IF column_name \in month_df.columns
            THEN Return(ColumnValues(month_df.rows, column_name))
            ELSE Return(default)
    ELSE IF column_name \notin df.columns THEN Return(default)
    ELSE IF "date" \notin df.columns THEN Return(default)
    ELSE Return(ColumnValues(MonthSlice(df, month), column_name))

\* _safe_get_day_value, lines 227-239: one element of an override list
DayElement(e, default) ==
    IF e.k = "null" THEN Return(default) ELSE float(e)

\* _safe_get_day_value, lines 244-271: the lookup in the Source
DaySource(df_to_use, date, column_name, default) ==
    IF column_name \notin df_to_use.columns THEN Return(default)
    ELSE IF "date" \notin df_to_use.columns THEN Return(default)
    ELSE LET values == ColumnValues(SelectSeq(df_to_use.rows, LAMBDA row : row.date = date),
                                    column_name)
         IN IF Len(values) > 0
            THEN IF IsNone(values[1]) THEN Return(default) ELSE Return(Val(values[1]))
            ELSE Return(default)

\* Variants of the day resolver that the override properties must reject:
\* one that lets a Source cell win over a scalar entry, one that answers a day
\* past the end of a list with the default instead of the last element.
DayValue_SourceFirst(monthly_data, df_to_use, date, column_name, default) ==
    LET value == monthly_data[column_name]
        day_index == date.day - 1
    IN IF HasOverride(monthly_data, column_name)
          /\ value.k = "list" /\ Len(value.list) > 0
       THEN IF 0 <= day_index /\ day_index < Len(value.list)
            THEN DayElement(value.list[day_index + 1], default)
            ELSE DayElement(value.list[Len(value.list)], default)
       ELSE IF /\ HasOverride(monthly_data, column_name) /\ value.k = "num"
               /\ column_name \notin df_to_use.columns
       THEN Return(value.num)
       ELSE DaySource(df_to_use, date, column_name, default)

DayValue_NoLast(monthly_data, df_to_use, date, column_name, default) ==
    LET value == monthly_data[column_name]
        day_index == date.day - 1
    IN IF HasOverride(monthly_data, column_name)
          /\ value.k = "list" /\ Len(value.list) > 0
       THEN IF 0 <= day_index /\ day_index < Len(value.list)
            THEN DayElement(value.list[day_index + 1], default)
            ELSE Return(default)
       ELSE IF HasOverride(monthly_data, column_name) /\ value.k = "num"
       THEN Return(value.num)
       ELSE DaySource(df_to_use, date, column_name, default)

\* A variant whose answer depends on hidden state: until input.json has been
\* loaded into the module's cache the entry of the field is ignored.  The
\* determinism property must reject it.
DayValue_ColdCache(monthly_data, df_to_use, date, column_name, default) ==
    LET value == monthly_data[column_name]
        day_index == date.day - 1
    IN IF IsNone(input_config_cache)
       THEN DaySource(df_to_use, date, column_name, default)
       ELSE IF HasOverride(monthly_data, column_name)
               /\ value.k = "list" /\ Len(value.list) > 0
       THEN IF 0 <= day_index /\ day_index < Len(value.list)
            THEN DayElement(value.list[day_index + 1], default)
            ELSE DayElement(value.list[Len(value.list)], default)
       ELSE IF HasOverride(monthly_data, column_name) /\ value.k = "num"
       THEN Return(value.num)
       ELSE DaySource(df_to_use, date, column_name, default)

\* _safe_get_day_value, as a function of the state it reads
DayValue(monthly_data, df_to_use, date, column_name, default) ==
    LET value == monthly_data[column_name]
        day_index == date.day - 1
    IN IF HasOverride(monthly_data, column_name)
          /\ value.k = "list" /\ Len(value.list) > 0
       THEN IF 0 <= day_index /\ day_index < Len(value.list)
            THEN DayElement(value.list[day_index + 1], default)
            ELSE DayElement(value.list[Len(value.list)], default)
       ELSE IF HasOverride(monthly_data, column_name) /\ value.k = "num"
       THEN Return(value.num)
       ELSE DaySource(df_to_use, date, column_name, default)

\* the warning either resolver prints once per key, lines 175-186 and 249-260
MonthWarnings(monthly_data, cache, df, month, column_name) ==
    IF /\ ~HasOverride(monthly_data, column_name)
       /\ ~(~IsNone(cache) /\ month \in DOMAIN Val(cache))
       /\ column_name \notin df.columns
    THEN {<<"missing_column_", column_name>>}
    ELSE {}

DayWarnings(monthly_data, df_to_use, column_name) ==
    IF /\ ~HasOverride(monthly_data, column_name)
       /\ column_name \notin df_to_use.columns
    THEN {<<"missing_column_day_", column_name>>}
    ELSE {}

monthly_data_of(config) == DictGet(config, "monthly_data", EmptyDict)

df_to_use == IF ~IsNone(master_df_indexed) THEN Val(master_df_indexed) ELSE master_df

\* the two resolvers on the current state
safe_get_month_values(month, column_name) ==
    MonthValues(monthly_data_of(get_input_config), monthly_cache, master_df,
                month, column_name, <<>>)

safe_get_day_value(date, column_name) ==
    DayValue(monthly_data_of(get_input_config), df_to_use, date, column_name, 0)

-----------------------------------------------------------------------------
(* Inputs of the resolver checks: override entries and Source tables *)

Months == {2, 11, 12}

\* the elements and the values a monthly_data entry is drawn from
OverrideElems == {JNum(T(1000)), JNum(T(1100) + 500), JNull}

RECURSIVE ListsUpTo(_)
ListsUpTo(n) ==
    IF n = 0 THEN {<<>>}
    ELSE LET shorter == ListsUpTo(n - 1)
         IN shorter \cup {Append(l, e) : l \in {x \in shorter : Len(x) = n - 1},
                                        e \in OverrideElems}

OverrideValues ==
    {JNull, JNum(T(1000)), JNum(T(2400) + 500), JStr(None), JStr(Some(T(1000)))}
    \cup {JList(l) : l \in ListsUpTo(MaxLen)}
    \cup {JList(<<JStr(None)>>), JList(<<JNum(T(1000)), JStr(None)>>)}

ResolverField == "gtm_vn"

ResolverDocs ==
    {[monthly_data |-> [c \in {ResolverField} |-> v]] : v \in OverrideValues}
    \cup {EmptyDict, [monthly_data |-> EmptyDict]}

\* the dates a Source of the run's month holds, in row order: the last day of the
\* month before and the days of the month
SourceDates(m) == <<prev_month_of(Date(m, 1))>> \o get_day(m)

\* a cell of the Source: base plus the day, NaN on nanday
ResolverCell(base, nanday, d) ==
    IF d.day = nanday THEN None ELSE Some(base + T(d.day))

\* a Source with the given dates and columns
MkSource(dates, cols, base, nanday) ==
    [columns |-> {"date"} \cup cols,
     rows |-> [i \in 1..Len(dates) |->
                 [date |-> dates[i],
                  cells |-> [c \in cols |-> ResolverCell(base, nanday, dates[i])]]]]

ResolverSources(m) ==
    {MkSource(SourceDates(m), {}, 0, 0)}
    \cup {MkSource(SourceDates(m), {ResolverField}, base, nanday) :
            base \in {T(1000), T(5000)}, nanday \in {0, 2}}
    \cup {MkSource(SubSeq(get_day(m), 1, 2), {ResolverField}, T(1000), 0)}

-----------------------------------------------------------------------------
(* The resolver driven call by call *)

NoCall == [fn |-> "none"]

InitResolve ==
    /\ today \in Months
    /\ input_json \in {[ok |-> TRUE, doc |-> d] : d \in ResolverDocs}
    /\ master_df \in ResolverSources(today)
    /\ input_config_cache = None
    /\ master_df_indexed = None
    /\ monthly_cache = None
    /\ warning_cache = {}
    /\ inputs_config = None
    /\ result_rows = <<>>
    /\ alarm_flag = FALSE
    /\ alarm_msg = None
    /\ output = None
    /\ pc = "start"
    /\ ret = NoCall

\* data_prep.init_monthly_cache(master_df)
init_monthly_cache ==
    /\ pc = "start"
    /\ IF ~IsNone(monthly_cache)
       THEN UNCHANGED <<master_df_indexed, monthly_cache, pc>>
       ELSE IF "date" \notin master_df.columns
       THEN /\ master_df_indexed' = Some(master_df)
            /\ pc' = "raised"
            /\ UNCHANGED monthly_cache
       ELSE /\ master_df_indexed' = Some(master_df)
            /\ monthly_cache' = Some(BuildMonthlyCache(master_df))
            /\ pc' = "ready"
    /\ UNCHANGED <<envVars, input_config_cache, warning_cache, runVars, ret>>

\* one call _safe_get_day_value(master_df, date, ResolverField)
CallDay(date) ==
    /\ pc = "ready"
    /\ ret' = [fn |-> "day", date |-> date, column |-> ResolverField,
               out |-> safe_get_day_value(date, ResolverField)]
    /\ input_config_cache' = Some(get_input_config)
    /\ warning_cache' = warning_cache \cup
            DayWarnings(monthly_data_of(get_input_config), df_to_use, ResolverField)
    /\ UNCHANGED <<envVars, master_df_indexed, monthly_cache, runVars, pc>>

\* one call _safe_get_month_values(master_df, month, ResolverField)
CallMonth(month) ==
    /\ pc = "ready"
    /\ ret' = [fn |-> "month", date |-> Date(month, 1), column |-> ResolverField,
               out |-> safe_get_month_values(month, ResolverField)]
    /\ input_config_cache' = Some(get_input_config)
    /\ warning_cache' = warning_cache \cup
            MonthWarnings(monthly_data_of(get_input_config), monthly_cache, master_df,
                          month, ResolverField)
    /\ UNCHANGED <<envVars, master_df_indexed, monthly_cache, runVars, pc>>

\* A variant of a later init_monthly_cache call that rebuilds the caches from
\* the table it is given; the cache-frame property must reject it.
InitAgain_Rebuild(indexed, cache, df) ==
    [indexed |-> Some(df), cache |-> Some(BuildMonthlyCache(df))]

\* init_monthly_cache, lines 101-116, as a function of the caches it finds
InitAgain(indexed, cache, df) ==
    IF ~IsNone(cache) THEN [indexed |-> indexed, cache |-> cache]
    ELSE [indexed |-> Some(df),
          cache |-> IF "date" \in df.columns THEN Some(BuildMonthlyCache(df)) ELSE cache]

\* a later call init_monthly_cache(df), with any table
CallInit(df) ==
    /\ pc = "ready"
    /\ master_df_indexed' = InitAgain(master_df_indexed, monthly_cache, df).indexed
    /\ monthly_cache' = InitAgain(master_df_indexed, monthly_cache, df).cache
    /\ ret' = [fn |-> "init", table |-> df]
    /\ UNCHANGED <<envVars, input_config_cache, warning_cache, runVars, pc>>

NextResolve ==
    \/ init_monthly_cache
    \/ \E df \in ResolverSources(today) : CallInit(df)
    \/ \E i \in 1..Len(SourceDates(today)) : CallDay(SourceDates(today)[i])
    \/ \E month \in {today, prev_month_of(Date(today, 1)).month} : CallMonth(month)

SpecResolve == InitResolve /\ [][NextResolve]_vars

\* the override entry of the field the last call resolved
RetOverridden ==
    ret.fn \in {"day", "month"} /\ HasOverride(monthly_data_of(get_input_config), ret.column)
RetEntry == monthly_data_of(get_input_config)[ret.column]

-----------------------------------------------------------------------------
(* Claims about the resolver, checked under SpecResolve *)

\* what the last call would have returned had the Source been df
RetWithSource(df) ==
    LET md == monthly_data_of(get_input_config)
    IN IF ret.fn = "day"
       THEN DayValue(md, df, ret.date, ret.column, 0)
       ELSE MonthValues(md, Some(BuildMonthlyCache(df)), df, ret.date.month, ret.column, <<>>)

\* C2: for a field whose monthly_data entry is not null, the result of
\* _safe_get_day_value and of _safe_get_month_values is determined by the entry
\* alone: whatever the Source holds for the field, the result is the same.
C2_OverrideDecides ==
    RetOverridden => \A df \in ResolverSources(today) : RetWithSource(df) = ret.out

\* C3: when the entry is a non-null scalar, _safe_get_day_value returns that
\* scalar for every day and _safe_get_month_values returns the one-element
\* sequence holding it.
C3_ScalarOverride ==
    (RetOverridden /\ RetEntry.k = "num") =>
        IF ret.fn = "day"
        THEN ret.out = Return(RetEntry.num)
        ELSE ret.out = Return(<<Some(RetEntry.num)>>)

\* a day call answered by a scalar entry while the Source holds another value
C3_Witness ==
    /\ RetOverridden
    /\ RetEntry.k = "num"
    /\ ret.fn = "day"
    /\ ret.date.day > 1
    /\ ret.column \in df_to_use.columns
    /\ DaySource(df_to_use, ret.date, ret.column, 0) # ret.out

\* the entry is a list of L >= 1 numbers
IsNumberList(j) ==
    /\ j.k = "list"
    /\ Len(j.list) >= 1
    /\ \A i \in 1..Len(j.list) : j.list[i].k = "num"

\* C4: when the entry is a sequence of L numbers, _safe_get_day_value returns
\* sequence[day-1] for day <= L and the last element, sequence[-1], for day > L.
C4_SequenceOverride ==
    (RetOverridden /\ ret.fn = "day" /\ IsNumberList(RetEntry)) =>
        LET seq == RetEntry.list
            L == Len(seq)
        IN ret.out = Return(IF ret.date.day <= L THEN seq[ret.date.day].num
                            ELSE seq[L].num)

\* a day past the end of a list whose last element differs from the one before
C4_Witness ==
    /\ RetOverridden
    /\ ret.fn = "day"
    /\ IsNumberList(RetEntry)
    /\ Len(RetEntry.list) = MaxLen
    /\ RetEntry.list[MaxLen] # RetEntry.list[MaxLen - 1]
    /\ ret.date.day > MaxLen
    /\ ret.date.month = today
    /\ ret.out = Return(RetEntry.list[MaxLen].num)

\* C15: once a field absent from both monthly_data and the Source has been
\* queried, the call returned the default (0.0 for a day, the empty sequence
\* for a month) and exactly one warning has been emitted for the field so far,
\* whether it was queried by day, by month or both.
C15_OneWarningPerField ==
    (/\ ret.fn \in {"day", "month"}
     /\ ~HasOverride(monthly_data_of(get_input_config), ret.column)
     /\ ret.column \notin master_df.columns) =>
        /\ ret.out = Return(IF ret.fn = "day" THEN 0 ELSE <<>>)
        /\ Cardinality({w \in warning_cache : w[2] = ret.column}) = 1

\* C16: whatever the monthly_data entry of the field is, a resolver call does
\* not raise; an entry that is text which is not a number, or an empty list,
\* yields the default (0.0 for a day, the empty sequence for a month).
C16_NeverRaises ==
    RetOverridden =>
        /\ ~ret.out.exc
        /\ (RetEntry = JStr(None) \/ RetEntry = JList(<<>>)) =>
               ret.out = Return(IF ret.fn = "day" THEN 0 ELSE <<>>)

\* C17: the answer of every _safe_get_day_value call is the function of
\* input.json, the Source, the field and the date alone, whatever calls came
\* before it and whatever they left in the module's caches; so two calls with
\* the same field and date in one run return the same value.
C17_DayValueIsAFunction ==
    ret.fn = "day" =>
        ret.out = DayValue(monthly_data_of(LoadInputJson), master_df, ret.date,
                           ret.column, 0)

\* a day call answered from a monthly_data entry after the caches were filled
\* and a warning was or was not emitted, where the Source holds another value
C17_Witness ==
    /\ ret.fn = "day"
    /\ ~IsNone(input_config_cache)
    /\ ~IsNone(master_df_indexed)
    /\ RetOverridden
    /\ ~ret.out.exc
    /\ ret.out # DaySource(master_df, ret.date, ret.column, 0)

\* C18: once init_monthly_cache has built them, the per-month cache and the
\* date-indexed table stay the ones built from the run's Source: no resolver
\* call and no later init_monthly_cache call, even with another table, modifies
\* or replaces them.
C18_CacheIsFrozen ==
    ~IsNone(monthly_cache) =>
        /\ monthly_cache = Some(BuildMonthlyCache(master_df))
        /\ master_df_indexed = Some(master_df)

\* a later init_monthly_cache call with another table, made after a resolver
\* call filled the configuration cache
C18_Witness ==
    /\ ret.fn = "init"
    /\ ret.table # master_df
    /\ BuildMonthlyCache(ret.table) # BuildMonthlyCache(master_df)
    /\ ~IsNone(input_config_cache)
    /\ monthly_cache = Some(BuildMonthlyCache(master_df))

-----------------------------------------------------------------------------
(* inputs.py: the configuration read through inputs._config *)

\* inputs._load_config: the cached document, read on the first call
load_config == IF IsNone(inputs_config) THEN LoadInputJson ELSE Val(inputs_config)

\* config.get(section, {}).get(key, default)
SectionGet(section, key, default) ==
    DictGet(DictGet(load_config, section, EmptyDict), key, default)

\* inputs.get_rn_vankor_inputs: a manual value is None when absent
RnManualKeys ==
    {"manual_F_bp_vn", "manual_F_bp_suzun", "manual_F_bp_suzun_vankor",
     "manual_F_bp_tagul_tpu", "manual_F_bp_tagul_lpu", "manual_F_bp_skn",
     "manual_F_bp_vo", "manual_F_bp_suzun_vslu", "manual_F_kchng"}

get_rn_vankor_inputs == [k \in RnManualKeys |-> SectionGet("rn_vankor", k, None)]

\* inputs.get_delivery_period(block_name)
DefaultDeliveryPeriod == 7
DeliveryPeriodKey(block_name) ==
    CASE block_name = "suzun_vankor" -> "delivery_period_e_suzun_vankor"
      [] block_name = "vo" -> "delivery_period_e_vo"
      [] block_name = "kchng" -> "delivery_period_e_kchng"

get_delivery_period(block_name) ==
    SectionGet("validation", DeliveryPeriodKey(block_name), DefaultDeliveryPeriod)

\* inputs.get_validation_value(key): the manual correction, None when absent or null
get_validation_value(key) == SectionGet("manual_corrections", key, None)

-----------------------------------------------------------------------------
(* Arithmetic of the stages *)

\* Python round(p / q) for q > 0: to the nearest integer, a tie to the even one
RoundHalfEven(p, q) ==
    LET f == p \div q
        r == p % q
    IN IF 2 * r < q THEN f
       ELSE IF 2 * r > q THEN f + 1
       ELSE IF f % 2 = 0 THEN f ELSE f + 1

RoundStep == 50
\* round((x / count) / 50) * 50
Round50(x, count) == RoundHalfEven(x, count * RoundStep * Scale) * RoundStep * Scale

\* x / 2
Half(x) == x \div 2

\* calculate._to_float of an array: its first element, 0.0 when it is empty
to_float(arr) == IF Len(arr) = 0 THEN 0 ELSE Val(arr[1])

\* arr.sum() and sum(arr)
RECURSIVE SumTo(_, _)
SumTo(arr, n) == IF n = 0 THEN 0 ELSE SumTo(arr, n - 1) + Val(arr[n])
ArraySum(arr) == SumTo(arr, Len(arr))

Min(a, b) == IF a <= b THEN a ELSE b

-----------------------------------------------------------------------------
(* calculate.rn_vankor *)

WholeMonthThreshold == T(20000)

\* lines 496-507 (and 566-577): delivery on the days that are multiples of e
delivery_days(e, N) == {d \in 1..N : d % e = 0}

\* A variant that pays the rounded base on the last delivery day as well; the
\* delivery property must reject it.
PeriodicDelivery_BaseOnly(F, e, N, day) ==
    IF day \in delivery_days(e, N)
    THEN Round50(F, Cardinality(delivery_days(e, N)))
    ELSE 0

PeriodicDelivery(F, e, N, day) ==
    LET days == delivery_days(e, N)
        delivery_count == Cardinality(days)
        last_day == CHOOSE d \in days : \A x \in days : x <= d
        base == Round50(F, delivery_count)
    IN IF days # {} /\ day \in days
       THEN IF day # last_day THEN base ELSE F - base * (delivery_count - 1)
       ELSE 0

\* lines 591-602: the same days for KCHNG, with its own last-day amount
KchngDelivery(F, e, N, day) ==
    LET days == delivery_days(e, N)
        delivery_count == Cardinality(days)
        last_day == CHOOSE d \in days : \A x \in days : x <= d
        base == Round50(F, delivery_count)
    IN IF days # {} /\ day \in days
       THEN IF day # last_day THEN base ELSE Half(F - base * (delivery_count - 2))
       ELSE 0

\* lines 470-474 (and 509-513, 529-533, 542-546): apportioning over the whole month
WholeMonth(F, N, day) ==
    LET base == Round50(F, N)
    IN IF day < N - 2 THEN base ELSE Half(F - base * (N - 2))

\* lines 483-487: the same for Suzun
WholeMonthSuzun(F, N, day) ==
    LET base == Round50(F, N)
    IN IF day < N - 2 THEN base ELSE F - Half(base * (N - 2))

\* lines 555-556: the same for SKN
WholeMonthSkn(F, N, day) ==
    LET base == Round50(F, N)
    IN IF day < N - 2 THEN base ELSE Half(F - base * (N - 1))

\* lines 579-580 and 604-605: base every day, the remainder on the last day
LastDayRemainder(Fbase, F, N, day) ==
    LET base == Round50(Fbase, N)
    IN IF day < N THEN base ELSE F - base * (N - 1)

\* data_prep.prepare_rn_vankor_data(master_df, n, prev_days, N, day, m)
MonthOf(m, column_name) == safe_get_month_values(m, column_name).val
DayOf(date, column_name) == safe_get_day_value(date, column_name).val

prepare_rn_vankor_data(n, prev_days, N, day, m) ==
    [F_vn |-> MonthOf(m, "volume_vankor"),
     F_suzun_obsh |-> MonthOf(m, "volume_suzun"),
     F_suzun_vankor |-> MonthOf(m, "suzun_vankor"),
     N |-> N,
     day |-> day,
     V_ctn_suzun_vslu_norm |-> DayOf(prev_days, "ctn_suzun_vslu_norm"),
     V_ctn_suzun_vslu |-> DayOf(n, "ctn_suzun_vslu"),
     F_tagul_lpu |-> MonthOf(m, "volume_lodochny"),
     F_tagul_tpu |-> MonthOf(m, "volume_tagulsk"),
     F_skn |-> DayOf(n, "skn"),
     F_vo |-> MonthOf(m, "volume_vostok_oil"),
     F_kchng |-> MonthOf(m, "volum_kchng"),
     F_bp_data |-> MonthOf(m, "bp_data"),
     F_bp_vn_data |-> MonthOf(m, "bp_vn_data"),
     F_bp_suzun_data |-> MonthOf(m, "bp_suzun_data"),
     F_bp_suzun_vankor_data |-> MonthOf(m, "bp_suzun_vankor_data"),
     F_bp_suzun_vslu_data |-> MonthOf(m, "bp_suzun_vslu_data"),
     F_bp_tagul_lpu_data |-> MonthOf(m, "bp_tagul_lpu_data"),
     F_bp_tagul_tpu_data |-> MonthOf(m, "bp_tagul_tpu_data"),
     F_bp_skn_data |-> MonthOf(m, "bp_skn_data"),
     F_bp_vo_data |-> MonthOf(m, "bp_vo_data"),
     F_bp_kchng_data |-> MonthOf(m, "bp_kchng_data")]

\* calculate.rn_vankor(**rn_data, **rn_vankor_inputs)
VsluExcess == T(1000)
AlarmDays == 10

rn_vankor(d, inp) ==
    LET N == d.N
        day == d.day
        e == get_delivery_period("suzun_vankor")
        F_vn == to_float(d.F_vn)
        F_suzun_obsh == to_float(d.F_suzun_obsh)
        F_suzun_vankor == to_float(d.F_suzun_vankor)
        F_tagul_lpu == to_float(d.F_tagul_lpu)
        F_tagul_tpu == to_float(d.F_tagul_tpu)
        F_skn == d.F_skn
        F_vo == to_float(d.F_vo)
        F_kchng_in == to_float(d.F_kchng)
        F_bp_vn == IF ~IsNone(inp.manual_F_bp_vn) THEN Val(inp.manual_F_bp_vn)
                   ELSE WholeMonth(F_vn, N, day)
        F_suzun == F_suzun_obsh - F_suzun_vankor
        F_bp_suzun == IF ~IsNone(inp.manual_F_bp_suzun) THEN Val(inp.manual_F_bp_suzun)
                      ELSE WholeMonthSuzun(F_suzun, N, day)
        F_bp_suzun_vankor ==
            IF ~IsNone(inp.manual_F_bp_suzun_vankor) THEN Val(inp.manual_F_bp_suzun_vankor)
            ELSE IF F_suzun_vankor < WholeMonthThreshold
            THEN PeriodicDelivery(F_suzun_vankor, e, N, day)
            ELSE WholeMonth(F_suzun_vankor, N, day)
        F_bp_suzun_vslu ==
            IF ~IsNone(inp.manual_F_bp_suzun_vslu) THEN Val(inp.manual_F_bp_suzun_vslu)
            ELSE IF d.V_ctn_suzun_vslu > d.V_ctn_suzun_vslu_norm + VsluExcess
            THEN VsluExcess
            ELSE 0
        F_bp_tagul_lpu ==
            IF ~IsNone(inp.manual_F_bp_tagul_lpu) THEN Val(inp.manual_F_bp_tagul_lpu)
            ELSE WholeMonth(F_tagul_lpu, N, day)
        F_bp_tagul_tpu ==
            IF ~IsNone(inp.manual_F_bp_tagul_tpu) THEN Val(inp.manual_F_bp_tagul_tpu)
            ELSE WholeMonth(F_tagul_tpu, N, day)
        F_bp_skn == IF ~IsNone(inp.manual_F_bp_skn) THEN Val(inp.manual_F_bp_skn)
                    ELSE WholeMonthSkn(F_skn, N, day)
        F_bp_vo == IF ~IsNone(inp.manual_F_bp_vo) THEN Val(inp.manual_F_bp_vo)
                   ELSE IF F_vo < WholeMonthThreshold
                   THEN PeriodicDelivery(F_vo, e, N, day)
                   ELSE LastDayRemainder(F_vo, F_vo, N, day)
        F_bp_tng == 0
        F_bp_kchng == IF ~IsNone(inp.manual_F_kchng) THEN 0
                      ELSE IF F_kchng_in < WholeMonthThreshold
                      THEN KchngDelivery(F_kchng_in, e, N, day)
                      ELSE LastDayRemainder(F_vo, F_kchng_in, N, day)
        F_bp == F_bp_vn + F_bp_tagul_lpu + F_bp_tagul_lpu + F_bp_suzun_vankor
                + F_bp_suzun_vslu + F_bp_skn + F_bp_vo + F_bp_tng + F_bp_kchng
        F_bp_month == ArraySum(d.F_bp_data) + F_bp
        first10 == SumTo(d.F_bp_data, Min(AlarmDays, Len(d.F_bp_data)))
        \* F_bp_data[:10].sum() < F_bp_month / N
        alarm == first10 * N < F_bp_month
    IN [F_bp_vn |-> F_bp_vn,
        F_bp_vn_month |-> ArraySum(d.F_bp_vn_data) + F_bp_vn,
        F_bp_suzun |-> F_bp_suzun,
        F_bp_suzun_month |-> ArraySum(d.F_bp_suzun_data) + F_bp_suzun,
        F_bp_suzun_vankor |-> F_bp_suzun_vankor,
        F_bp_suzun_vankor_month |-> ArraySum(d.F_bp_suzun_vankor_data) + F_bp_suzun_vankor,
        F_bp_suzun_vslu |-> F_bp_suzun_vslu,
        F_bp_suzun_vslu_month |-> ArraySum(d.F_bp_suzun_vslu_data) + F_bp_suzun_vslu,
        F_bp_tagul_lpu |-> F_bp_tagul_lpu,
        F_bp_tagul_lpu_month |-> ArraySum(d.F_bp_tagul_lpu_data) + F_bp_tagul_lpu,
        F_bp_tagul_tpu |-> F_bp_tagul_tpu,
        F_bp_tagul_tpu_month |-> ArraySum(d.F_bp_tagul_tpu_data) + F_bp_tagul_tpu,
        F_bp_skn |-> F_bp_skn,
        F_bp_skn_month |-> ArraySum(d.F_bp_skn_data) + F_bp_skn,
        F_bp_vo |-> F_bp_vo,
        F_bp_vo_month |-> ArraySum(d.F_bp_vo_data) + F_bp_vo,
        F_bp_kchng |-> F_bp_kchng,
        F_bp_kchng_month |-> ArraySum(d.F_bp_kchng_data) + F_bp_kchng,
        F_bp |-> F_bp,
        F_bp_month |-> F_bp_month,
        F_bp_sr |-> [num |-> F_bp_month, den |-> N],
        alarm_first_10_days |-> alarm,
        alarm_first_10_days_msg |-> IF alarm THEN Some("first10") ELSE None]

-----------------------------------------------------------------------------
(* The rn_vankor stage driven day by day over one month *)

RnMonthColumns ==
    {"volume_vankor", "volume_suzun", "suzun_vankor", "volume_lodochny", "volume_tagulsk",
     "volume_vostok_oil", "volum_kchng", "bp_data", "bp_vn_data", "bp_suzun_data",
     "bp_suzun_vankor_data", "bp_suzun_vslu_data", "bp_tagul_lpu_data",
     "bp_tagul_tpu_data", "bp_skn_data", "bp_vo_data", "bp_kchng_data"}
RnDayColumns == {"ctn_suzun_vslu_norm", "ctn_suzun_vslu", "skn"}
RnTargetColumns ==
    {"volume_vankor", "suzun_vankor", "volume_lodochny", "volume_tagulsk",
     "volume_vostok_oil", "volum_kchng", "skn"}

\* the monthly targets and the carry-over cells the Source is filled with
RnTargets == {T(14000), T(14130), T(900), T(20000), T(31040)}
RnCarry == {0, T(100)}

RnCell(c, d, target, carry) ==
    CASE c \in RnTargetColumns -> Some(target)
      [] c = "volume_suzun" -> Some(target + T(6010))
      [] c = "ctn_suzun_vslu_norm" -> Some(T(500))
      [] c = "ctn_suzun_vslu" -> Some(T(500) + T(100) * d.day)
      [] OTHER -> Some(carry)

RnSource(m, target, carry) ==
    [columns |-> {"date"} \cup RnMonthColumns \cup RnDayColumns,
     rows |-> [i \in 1..Len(SourceDates(m)) |->
                 [date |-> SourceDates(m)[i],
                  cells |-> [c \in RnMonthColumns \cup RnDayColumns |->
                               RnCell(c, SourceDates(m)[i], target, carry)]]]]

RnDocs ==
    {[validation |-> [k \in {"delivery_period_e_suzun_vankor"} |-> e]] : e \in {7, 10, 40}}
    \cup {EmptyDict,
          [rn_vankor |-> [k \in RnManualKeys |-> Some(T(100))]],
          [rn_vankor |-> [k \in {"manual_F_kchng"} |-> Some(T(9000))]],
          [rn_vankor |-> [k \in {"manual_F_bp_tagul_tpu"} |-> Some(T(700))]],
          [validation |-> [k \in {"delivery_period_e_vo"} |-> 5]]}

InitRn ==
    /\ today \in Months
    /\ input_json \in {[ok |-> TRUE, doc |-> d] : d \in RnDocs}
    /\ master_df \in {RnSource(today, t, c) : t \in RnTargets, c \in RnCarry}
    /\ input_config_cache = None
    /\ master_df_indexed = None
    /\ monthly_cache = None
    /\ warning_cache = {}
    /\ inputs_config = None
    /\ result_rows = <<>>
    /\ alarm_flag = FALSE
    /\ alarm_msg = None
    /\ output = None
    /\ pc = "start"
    /\ ret = NoCall

\* the warnings a stage's resolver calls add to data_prep._warning_cache
StageWarnings(m, month_columns, day_columns) ==
    LET md == monthly_data_of(get_input_config)
    IN UNION {MonthWarnings(md, monthly_cache, master_df, m, c) : c \in month_columns}
       \cup UNION {DayWarnings(md, df_to_use, c) : c \in day_columns}

\* a stage's results without the keys main pops from them
Pop(results, keys) == [k \in DOMAIN results \ keys |-> results[k]]
AlarmKeys == {"alarm_first_10_days", "alarm_first_10_days_msg"}

\* main, lines 167-171 and 206-211: the next day of the month through rn_vankor
RnDay ==
    /\ pc = "ready"
    /\ Len(result_rows) < monthrange(today)
    /\ LET n == get_day(today)[Len(result_rows) + 1]
           m == n.month
           N == monthrange(n.month)
           rn_data == prepare_rn_vankor_data(n, prev_day_of(n), N, n.day, m)
           rn_results == rn_vankor(rn_data, get_rn_vankor_inputs)
       IN /\ alarm_flag' = rn_results.alarm_first_10_days
          /\ alarm_msg' = rn_results.alarm_first_10_days_msg
          /\ result_rows' = Append(result_rows,
                                   [date |-> n] @@ Pop(rn_results, AlarmKeys))
          /\ warning_cache' = warning_cache \cup StageWarnings(m, RnMonthColumns, RnDayColumns)
    /\ input_config_cache' = Some(get_input_config)
    /\ inputs_config' = Some(load_config)
    /\ UNCHANGED <<envVars, master_df_indexed, monthly_cache, output, pc, ret>>

NextRn ==
    \/ init_monthly_cache
    \/ RnDay

SpecRn == InitRn /\ [][NextRn]_vars

-----------------------------------------------------------------------------
(* Claims about rn_vankor, checked under SpecRn *)

\* the sum of a field over the first n result rows
RECURSIVE RowSum(_, _)
RowSum(field, n) == IF n = 0 THEN 0 ELSE RowSum(field, n - 1) + result_rows[n][field]

RnNoManual == \A k \in RnManualKeys : IsNone(get_rn_vankor_inputs[k])
RnN == monthrange(today)
RnPeriod == get_delivery_period("suzun_vankor")
\* the monthly target rn_vankor receives for a Source column
RnTargetOf(column_name) == to_float(MonthOf(today, column_name))

\* C5: with no manual override, a monthly target T below 20000 and a delivery
\* period e with a multiple in 1..N, F_bp_suzun_vankor (and likewise F_bp_vo) is
\* base = round((T/delivery_count)/50)*50 on every delivery day but the last,
\* T - base*(delivery_count-1) on the last delivery day and 0 on every other
\* day, so the amounts of days 1..N sum to T.
C5_PeriodicDelivery ==
    (pc = "ready" /\ RnNoManual /\ delivery_days(RnPeriod, RnN) # {}) =>
        \A g \in {<<"suzun_vankor", "F_bp_suzun_vankor">>, <<"volume_vostok_oil", "F_bp_vo">>} :
            LET Tg == RnTargetOf(g[1])
                days == delivery_days(RnPeriod, RnN)
                count == Cardinality(days)
                last == CHOOSE d \in days : \A x \in days : x <= d
                base == RoundHalfEven(Tg, count * 50 * Scale) * 50 * Scale
            IN Tg < T(20000) =>
                /\ \A d \in 1..Len(result_rows) :
                      result_rows[d][g[2]] =
                          IF d \notin days THEN 0
                          ELSE IF d # last THEN base
                          ELSE Tg - base * (count - 1)
                /\ Len(result_rows) = RnN => RowSum(g[2], RnN) = Tg

\* a whole month delivered in rounded amounts whose remainder made the last
\* delivery differ from the others
C5_Witness ==
    /\ pc = "ready"
    /\ RnNoManual
    /\ Len(result_rows) = RnN
    /\ RnTargetOf("suzun_vankor") < T(20000)
    /\ RnPeriod = 7
    /\ result_rows[7].F_bp_suzun_vankor > 0
    /\ result_rows[28].F_bp_suzun_vankor # result_rows[7].F_bp_suzun_vankor
    /\ RowSum("F_bp_suzun_vankor", RnN) = RnTargetOf("suzun_vankor")

\* C6: for KCHNG, with no manual override, F_kchng below 20000 and a delivery
\* period with a multiple in 1..N, the F_bp_kchng amounts of days 1..N sum to
\* F_kchng, the whole remainder being assigned to the last delivery day.
C6_KchngSumsToTarget ==
    (/\ pc = "ready" /\ RnNoManual /\ delivery_days(RnPeriod, RnN) # {}
     /\ RnTargetOf("volum_kchng") < T(20000) /\ Len(result_rows) = RnN) =>
        LET F == RnTargetOf("volum_kchng")
            days == delivery_days(RnPeriod, RnN)
            count == Cardinality(days)
            last == CHOOSE d \in days : \A x \in days : x <= d
            base == RoundHalfEven(F, count * 50 * Scale) * 50 * Scale
        IN /\ RowSum("F_bp_kchng", RnN) = F
           /\ result_rows[last].F_bp_kchng = F - base * (count - 1)

\* C7: for an owner apportioned over the whole month (F_suzun_vankor >= 20000,
\* and F_bp_vn, F_bp_suzun, F_bp_tagul_lpu, F_bp_tagul_tpu, F_bp_skn without
\* manual override) every day except the last two receives
\* base = round((F/N)/50)*50, each of the days N-1 and N receives half of
\* F - base*(N-2), and the N amounts sum to F.
C7_WholeMonth ==
    (pc = "ready" /\ RnNoManual) =>
        \A g \in {<<"F_bp_vn", RnTargetOf("volume_vankor")>>,
                  <<"F_bp_suzun", RnTargetOf("volume_suzun") - RnTargetOf("suzun_vankor")>>,
                  <<"F_bp_tagul_lpu", RnTargetOf("volume_lodochny")>>,
                  <<"F_bp_tagul_tpu", RnTargetOf("volume_tagulsk")>>,
                  <<"F_bp_skn", DayOf(Date(today, 1), "skn")>>,
                  <<"F_bp_suzun_vankor", RnTargetOf("suzun_vankor")>>} :
            LET F == g[2]
                base == RoundHalfEven(F, RnN * 50 * Scale) * 50 * Scale
            IN (g[1] = "F_bp_suzun_vankor" => F >= T(20000)) =>
                /\ \A d \in 1..Len(result_rows) :
                      result_rows[d][g[1]] =
                          IF d <= RnN - 2 THEN base ELSE (F - base * (RnN - 2)) \div 2
                /\ Len(result_rows) = RnN => RowSum(g[1], RnN) = F

\* whether the first-decad check of rn_vankor failed on the d-th day of the run
RnAlarmOfDay(d) ==
    LET n == get_day(today)[d]
    IN rn_vankor(prepare_rn_vankor_data(n, prev_day_of(n), monthrange(n.month), n.day,
                                        n.month),
                 get_rn_vankor_inputs).alarm_first_10_days

\* C11: after any number of processed days the run-level alarm is raised if and
\* only if the first-decad check failed on at least one of them; a day that
\* passes the check does not clear an alarm raised by an earlier day.
C11_AlarmIsSticky ==
    pc = "ready" => (alarm_flag <=> \E d \in 1..Len(result_rows) : RnAlarmOfDay(d))

\* the last row of the run and its day
RnLastRow == result_rows[Len(result_rows)]

\* C23: each delivery group follows its own configured period: with no manual
\* value and a target below 20000, F_bp_suzun_vankor is delivered on the
\* multiples of delivery_period_e_suzun_vankor, F_bp_vo on those of
\* delivery_period_e_vo and F_bp_kchng on those of delivery_period_e_kchng.
C23_OwnPeriod ==
    (pc = "ready" /\ Len(result_rows) > 0 /\ RnNoManual
     /\ RnTargetOf("suzun_vankor") < WholeMonthThreshold) =>
        /\ RnLastRow.F_bp_suzun_vankor =
              PeriodicDelivery(RnTargetOf("suzun_vankor"), get_delivery_period("suzun_vankor"),
                               RnN, Len(result_rows))
        /\ RnLastRow.F_bp_vo =
              PeriodicDelivery(RnTargetOf("volume_vostok_oil"), get_delivery_period("vo"),
                               RnN, Len(result_rows))
        /\ RnLastRow.F_bp_kchng =
              KchngDelivery(RnTargetOf("volum_kchng"), get_delivery_period("kchng"),
                            RnN, Len(result_rows))

\* C29: the total F_bp of a day is the sum of the day's deliveries of the nine
\* owners, each counted once (F_bp_tng is 0 and is not returned).
C29_TotalOfOwners ==
    (pc = "ready" /\ Len(result_rows) > 0) =>
        RnLastRow.F_bp =
            RnLastRow.F_bp_vn + RnLastRow.F_bp_suzun_vankor + RnLastRow.F_bp_suzun_vslu
            + RnLastRow.F_bp_tagul_lpu + RnLastRow.F_bp_tagul_tpu + RnLastRow.F_bp_skn
            + RnLastRow.F_bp_vo + 0 + RnLastRow.F_bp_kchng

-----------------------------------------------------------------------------
(* inputs.py: the inputs of the other stages *)

\* a parameter of a stage: config.get(section, {}).get(key, 0.0)
ParamOf(section, key) == SectionGet(section, key, 0)

get_suzun_inputs ==
    [G_payaha |-> ParamOf("suzun", "G_payaha"),
     G_suzun_tng |-> ParamOf("suzun", "G_suzun_tng"),
     K_g_suzun |-> ParamOf("suzun", "K_g_suzun"),
     manual_V_upn_suzun |-> SectionGet("suzun", "manual_V_upn_suzun", None),
     manual_V_suzun_vslu |-> SectionGet("suzun", "manual_V_suzun_vslu", None)]

get_lodochny_inputs ==
    [G_ichem |-> ParamOf("lodochny", "G_ichem"),
     K_otkachki |-> ParamOf("lodochny", "K_otkachki"),
     K_gupn_lodochny |-> ParamOf("lodochny", "K_gupn_lodochny"),
     K_g_tagul |-> ParamOf("lodochny", "K_g_tagul"),
     manual_V_upn_lodochny |-> SectionGet("lodochny", "manual_V_upn_lodochny", None),
     manual_G_sikn_tagul |-> SectionGet("lodochny", "manual_G_sikn_tagul", None),
     manual_V_tagul |-> SectionGet("lodochny", "manual_V_tagul", None)]

get_cppn_1_inputs ==
    [manual_V_upsv_yu |-> SectionGet("cppn_1", "manual_V_upsv_yu", None),
     manual_V_upsv_s |-> SectionGet("cppn_1", "manual_V_upsv_s", None),
     manual_V_upsv_cps |-> SectionGet("cppn_1", "manual_V_upsv_cps", None)]

get_sikn_1208_inputs == [K_delte_g_sikn |-> ParamOf("sikn_1208", "K_delte_g_sikn")]

get_TSTN_inputs ==
    [K_suzun |-> ParamOf("tstn", "K_suzun"),
     K_vankor |-> ParamOf("tstn", "K_vankor"),
     F_suzun_vslu |-> ParamOf("tstn", "F_suzun_vslu"),
     G_skn |-> ParamOf("tstn", "G_skn"),
     K_skn |-> ParamOf("tstn", "K_skn"),
     K_ichem |-> ParamOf("tstn", "K_ichem"),
     K_payaha |-> ParamOf("tstn", "K_payaha"),
     K_tagul |-> ParamOf("tstn", "K_tagul"),
     K_lodochny |-> ParamOf("tstn", "K_lodochny")]

-----------------------------------------------------------------------------
(* calculate.suzun, calculate.VO, calculate.kchng and their inputs *)

\* x / N: a quotient is kept to the resolution of the model's numbers
DivN(x, N) == x \div N

prepare_suzun_data(n, m, prev_days, prev_month, N) ==
    [G_buy_month |-> MonthOf(m, "buying_oil"),
     G_out_udt_month |-> MonthOf(m, "out_udt"),
     N |-> N,
     Q_vankor |-> MonthOf(m, "gtm_vn"),
     Q_suzun |-> MonthOf(m, "gtm_suzun"),
     Q_vslu |-> MonthOf(m, "gtm_vslu"),
     Q_tng |-> MonthOf(m, "gtm_taymyr"),
     Q_vo |-> MonthOf(m, "gtm_vostok"),
     G_per_data |-> MonthOf(m, "per_data"),
     G_suzun_vslu_data |-> MonthOf(m, "suzun_vslu_data"),
     G_suzun_data |-> MonthOf(m, "suzun_data"),
     G_suzun_slu_data |-> MonthOf(m, "suzun_slu_data"),
     V_suzun_tng_prev |-> DayOf(prev_days, "suzun_tng"),
     Q_vslu_day |-> DayOf(n, "gtm_vslu"),
     V_upn_suzun_prev |-> DayOf(prev_days, "upn_suzun"),
     V_suzun_vslu_prev |-> DayOf(prev_days, "suzun_vslu"),
     Q_suzun_day |-> DayOf(n, "gtm_suzun"),
     V_upn_suzun_0 |-> DayOf(prev_month, "upn_suzun"),
     V_suzun_vslu_0 |-> DayOf(prev_month, "suzun_vslu"),
     V_suzun_tng_0 |-> DayOf(prev_month, "suzun_tng"),
     V_suzun_slu_prev |-> DayOf(prev_days, "suzun_slu")]

suzun(d, inp) ==
    LET N == d.N
        G_buy_day == DivN(to_float(d.G_buy_month), N)
        G_out_udt_day == DivN(to_float(d.G_out_udt_month), N)
        G_per == G_buy_day - G_out_udt_day
        V_suzun_tng == inp.G_payaha + d.V_suzun_tng_prev - inp.G_suzun_tng
        G_suzun_vslu == d.Q_vslu_day
        V_upn_suzun == IF ~IsNone(inp.manual_V_upn_suzun) THEN Val(inp.manual_V_upn_suzun)
                       ELSE d.V_upn_suzun_prev
        V_suzun_vslu == IF ~IsNone(inp.manual_V_suzun_vslu) THEN Val(inp.manual_V_suzun_vslu)
                        ELSE d.V_suzun_vslu_prev + d.Q_vslu_day - G_suzun_vslu
        V_suzun_slu == V_upn_suzun - V_suzun_vslu - V_suzun_tng
        G_suzun_slu == d.Q_suzun_day - d.Q_vslu_day - (V_suzun_slu - d.V_suzun_slu_prev)
                       - inp.K_g_suzun
        G_suzun == G_suzun_vslu + inp.G_suzun_tng + G_suzun_slu
    IN [G_buy_day |-> G_buy_day,
        G_out_udt_day |-> G_out_udt_day,
        G_per |-> G_per,
        G_per_month |-> ArraySum(d.G_per_data) + G_per,
        Q_vankor_month |-> ArraySum(d.Q_vankor),
        Q_suzun_month |-> ArraySum(d.Q_suzun),
        Q_vslu_month |-> ArraySum(d.Q_vslu),
        Q_tng_month |-> ArraySum(d.Q_tng),
        Q_vo_month |-> ArraySum(d.Q_vo),
        V_suzun_tng |-> V_suzun_tng,
        G_suzun_vslu |-> G_suzun_vslu,
        G_suzun_vslu_month |-> ArraySum(d.G_suzun_vslu_data) + G_suzun_vslu,
        V_upn_suzun |-> V_upn_suzun,
        V_suzun_vslu |-> V_suzun_vslu,
        V_suzun_slu_0 |-> d.V_upn_suzun_0 - d.V_suzun_vslu_0 - d.V_suzun_tng_0,
        V_suzun_slu |-> V_suzun_slu,
        G_suzun_slu |-> G_suzun_slu,
        G_suzun_slu_month |-> ArraySum(d.G_suzun_slu_data) + G_suzun_slu,
        G_suzun |-> G_suzun,
        G_suzun_month |-> ArraySum(d.G_suzun_data) + G_suzun,
        G_suzun_delta |-> d.Q_suzun_day - G_suzun_slu - G_suzun_vslu
                          - (V_upn_suzun - d.V_upn_suzun_prev) + inp.G_payaha]

prepare_vo_data(n, m) ==
    [Q_vo_day |-> DayOf(n, "gtm_vostok"),
     G_upn_lodochny_ichem_data |-> MonthOf(m, "upn_lodochny_ichem_data"),
     m |-> m]

VO(d) ==
    [G_upn_lod |-> d.Q_vo_day,
     G_upn_lod_month |-> ArraySum(d.G_upn_lodochny_ichem_data) + d.Q_vo_day]

prepare_kchng_data(n, m) ==
    [Q_kchng_day |-> DayOf(n, "kchng"),
     Q_kchng |-> MonthOf(m, "kchng"),
     G_kchng_data |-> MonthOf(m, "kchng_data")]

kchng(d) ==
    [Q_kchng_month |-> ArraySum(d.Q_kchng),
     G_kchng |-> d.Q_kchng_day,
     G_kchng_month |-> ArraySum(d.G_kchng_data) + d.Q_kchng_day,
     G_kchng_data |-> d.G_kchng_data]

-----------------------------------------------------------------------------
(* calculate.lodochny and its inputs *)

\* a / b and x * k for a coefficient k, both kept to the resolution of the numbers
Ratio(a, b) == (a \div b) * Scale + ((a % b) * Scale) \div b
MulK(x, k) == (x \div Scale) * k + ((x % Scale) * k) \div Scale
Abs(x) == IF x < 0 THEN 0 - x ELSE x

DefaultQTagulPrevMonth == T(1000)
DefaultGLodochniPrevMonth == T(100)

\* data_prep.prepare_lodochny_data, lines 357-374: the value of input.json when it
\* is given, the Source otherwise, the default when the Source holds 0
PrevMonthOrDefault(key, prev_month, column_name, default) ==
    LET given == DictGet(DictGet(get_input_config, "lodochny", EmptyDict), key, None)
        from_df == DayOf(prev_month, column_name)
    IN IF ~IsNone(given) THEN Val(given)
       ELSE IF from_df = 0 THEN default ELSE from_df

prepare_lodochny_data(n, m, prev_days, prev_month, N, day, kchng_results) ==
    [Q_tagul |-> MonthOf(m, "gtm_tagulsk"),
     Q_lodochny |-> MonthOf(m, "gtm_lodochny"),
     V_upn_lodochny_prev |-> DayOf(prev_days, "upn_lodochny"),
     V_ichem_prev |-> DayOf(prev_days, "ichem"),
     G_lodochny_ichem |-> DayOf(n, "lodochny_ichem"),
     Q_tagul_prev_month |->
        PrevMonthOrDefault("Q_tagul_prev_month", prev_month, "gtm_tagulsk",
                           DefaultQTagulPrevMonth),
     G_lodochni_upsv_yu_prev_month |->
        PrevMonthOrDefault("G_lodochni_upsv_yu_prev_month", prev_month, "lodochni_upsv_yu",
                           DefaultGLodochniPrevMonth),
     N |-> N,
     Q_vo_day |-> DayOf(n, "gtm_vostok"),
     Q_lodochny_day |-> DayOf(n, "gtm_lodochny"),
     Q_tagul_day |-> DayOf(n, "gtm_tagulsk"),
     V_tagul |-> DayOf(n, "tagul"),
     V_tagul_prev |-> DayOf(prev_days, "tagul"),
     G_kchng |-> kchng_results.G_kchng,
     day |-> day,
     G_lodochny_uspv_yu_data |-> MonthOf(m, "lodochny_uspv_yu_data"),
     G_sikn_tagul_data |-> MonthOf(m, "sikn_tagul_data"),
     G_tagul_data |-> MonthOf(m, "tagul_data"),
     delte_G_tagul_data |-> MonthOf(m, "delte_tagul_data"),
     G_lodochny_data |-> MonthOf(m, "lodochny_data"),
     delte_G_upn_lodochny_data |-> MonthOf(m, "delte_upn_lodochny_data"),
     G_tagul_lodochny_data |-> MonthOf(m, "tagul_lodochny_data")]

KOtkachkiTolerance == Scale \div 100
RoundStepTagul == 10

\* A variant of the pumping coefficient that answers a zero denominator with a
\* zero coefficient; the degenerate-ratio property must reject it.
KOtkachkiMonth_Zero(Q_tagul_prev_month, G_lodochni_upsv_yu_prev_month, K_otkachki) ==
    IF Q_tagul_prev_month = 0 THEN 0
    ELSE Ratio(G_lodochni_upsv_yu_prev_month, Q_tagul_prev_month)

\* lines 266-271: the coefficient of the month before; a magnitude below 1e-10
\* is below the resolution of the model's numbers, so it is the value 0
KOtkachkiMonth(Q_tagul_prev_month, G_lodochni_upsv_yu_prev_month, K_otkachki) ==
    IF Q_tagul_prev_month = 0 THEN K_otkachki
    ELSE Ratio(G_lodochni_upsv_yu_prev_month, Q_tagul_prev_month)

\* A variant of the replacement of the coefficient that keeps the configured
\* value unless auto_replace_K_otkachki is set; the flag-independence property
\* must reject it.
KOtkachkiUsed_Flagged(K_otkachki, K_otkachki_month, auto_replace) ==
    IF Abs(K_otkachki - K_otkachki_month) >= KOtkachkiTolerance /\ auto_replace
    THEN K_otkachki_month
    ELSE K_otkachki

\* lines 273-291: the coefficient used by the formulas after the comparison
KOtkachkiUsed(K_otkachki, K_otkachki_month, auto_replace) ==
    IF Abs(K_otkachki - K_otkachki_month) >= KOtkachkiTolerance
    THEN IF auto_replace THEN K_otkachki_month ELSE K_otkachki_month
    ELSE K_otkachki

lodochny(d, inp) ==
    LET N == d.N
        V_upn_lodochny ==
            IF ~IsNone(inp.manual_V_upn_lodochny) THEN Val(inp.manual_V_upn_lodochny)
            ELSE d.V_upn_lodochny_prev
        V_ichem == d.V_ichem_prev + d.G_lodochny_ichem - inp.G_ichem
        K_otkachki_month ==
            KOtkachkiMonth(d.Q_tagul_prev_month, d.G_lodochni_upsv_yu_prev_month,
                           inp.K_otkachki)
        auto_replace == SectionGet("validation", "auto_replace_K_otkachki", FALSE)
        K_otkachki == KOtkachkiUsed(inp.K_otkachki, K_otkachki_month, auto_replace)
        G_lodochny_uspv_yu ==
            MulK(d.Q_lodochny_day, Scale - K_otkachki) - Half(inp.K_gupn_lodochny)
        G_lodochny_uspv_yu_month == ArraySum(d.G_lodochny_uspv_yu_data) + G_lodochny_uspv_yu
        value == RoundHalfEven(G_lodochny_uspv_yu_month, N * RoundStepTagul * Scale)
                 * RoundStepTagul * Scale
        G_sikn_tagul ==
            IF ~IsNone(inp.manual_G_sikn_tagul) THEN Val(inp.manual_G_sikn_tagul)
            ELSE IF d.day <= N - 2 THEN value
            ELSE Half(G_lodochny_uspv_yu_month - value * (N - 2))
        V_tagul == IF ~IsNone(inp.manual_V_tagul) THEN Val(inp.manual_V_tagul)
                   ELSE d.V_tagul_prev
        G_tagul == d.Q_tagul_day - (V_tagul - d.V_tagul_prev) - inp.K_g_tagul
        delte_G_tagul == d.Q_tagul_day - G_tagul - (V_tagul - d.V_tagul_prev)
        G_upn_lodochny == MulK(d.Q_lodochny_day, K_otkachki)
                          - (V_upn_lodochny - d.V_upn_lodochny_prev)
                          - Half(inp.K_gupn_lodochny) + d.Q_vo_day
        G_lodochny == G_upn_lodochny - inp.G_ichem
        delte_G_upn_lodochny == d.Q_lodochny_day + d.Q_vo_day - G_lodochny_uspv_yu - G_lodochny
                                - (V_upn_lodochny - d.V_upn_lodochny_prev)
        G_tagul_lodochny == G_tagul + G_upn_lodochny + d.G_kchng
    IN [Q_tagulsk_month |-> ArraySum(d.Q_tagul),
        Q_lodochny_month |-> ArraySum(d.Q_lodochny),
        V_upn_lodochny |-> V_upn_lodochny,
        V_ichem |-> V_ichem,
        V_lodochny |-> V_upn_lodochny - V_ichem,
        K_otkachki_month |-> K_otkachki_month,
        G_lodochny_uspv_yu |-> G_lodochny_uspv_yu,
        G_lodochny_uspv_yu_month |-> G_lodochny_uspv_yu_month,
        G_sikn_tagul |-> G_sikn_tagul,
        G_sikn_tagul_month |-> ArraySum(d.G_sikn_tagul_data) + G_sikn_tagul,
        delte_G_tagul |-> delte_G_tagul,
        delte_G_tagul_month |-> ArraySum(d.delte_G_tagul_data) + delte_G_tagul,
        G_upn_lodochny |-> G_upn_lodochny,
        G_lodochny |-> G_lodochny,
        G_lodochny_month |-> ArraySum(d.G_lodochny_data) + G_lodochny,
        delte_G_upn_lodochny |-> delte_G_upn_lodochny,
        G_upn_lodochny_month |-> ArraySum(d.delte_G_upn_lodochny_data) + delte_G_upn_lodochny,
        G_tagul_lodochny |-> G_tagul_lodochny,
        G_tagul_lodochny_month |-> ArraySum(d.G_tagul_lodochny_data) + G_tagul_lodochny,
        G_tagul_month |-> ArraySum(d.G_tagul_data) + G_tagul,
        G_tagul |-> G_tagul]

-----------------------------------------------------------------------------
(* Validation of a computed value, as CPPN_1 and TSTN do it *)

\* int(x): truncation toward zero
int(x) == IF x >= 0 THEN (x \div Scale) * Scale ELSE 0 - (((0 - x) \div Scale) * Scale)

\* calculate.py lines 370-380 (and every later check of the same shape): a value
\* inside [lo, hi] is kept; outside, the manual correction replaces it when
\* input.json gives one, and the value is kept otherwise
InBand(value, lo, hi) == lo <= value /\ value <= hi

Validate(value, lo, hi, key) ==
    IF InBand(value, lo, hi) THEN value
    ELSE LET correction == get_validation_value(key)
         IN IF ~IsNone(correction) THEN int(Val(correction)) ELSE value

-----------------------------------------------------------------------------
(* calculate.CPPN_1 and its inputs *)

prepare_cppn1_data(n, prev_days, prev_month, lodochny_results) ==
    [flag_list |-> <<0, 0, 0>>,
     V_upsv_yu_0 |-> DayOf(prev_month, "upsv_yu"),
     V_upsv_s_0 |-> DayOf(prev_month, "upsv_s"),
     V_upsv_cps_0 |-> DayOf(prev_month, "upsv_cps"),
     V_upsv_yu_prev |-> DayOf(prev_days, "upsv_yu"),
     V_upsv_s_prev |-> DayOf(prev_days, "upsv_s"),
     V_upsv_cps_prev |-> DayOf(prev_days, "upsv_cps"),
     V_upsv_yu |-> DayOf(n, "upsv_yu"),
     V_upsv_s |-> DayOf(n, "upsv_s"),
     V_upsv_cps |-> DayOf(n, "upsv_cps"),
     V_lodochny_cps_upsv_yu_prev |-> DayOf(prev_days, "lodochny_cps_upsv_yu"),
     G_sikn_tagul |-> lodochny_results.G_sikn_tagul,
     V_lodochny_upsv_yu |-> DayOf(prev_days, "lodochny_upsv_yu")]

NormalBand == T(1500)

\* lines 365-368, 384-387, 403-406: the value of each tank before validation
CPPN_1_computed(d, inp) ==
    [V_upsv_yu |-> IF ~IsNone(inp.manual_V_upsv_yu) THEN Val(inp.manual_V_upsv_yu)
                   ELSE d.V_upsv_yu_prev,
     V_upsv_s |-> IF ~IsNone(inp.manual_V_upsv_s) THEN Val(inp.manual_V_upsv_s)
                  ELSE d.V_upsv_s_prev,
     V_upsv_cps |-> IF ~IsNone(inp.manual_V_upsv_cps) THEN d.V_upsv_cps
                    ELSE d.V_upsv_cps_prev]

\* A variant of the tank bands whose "stopped" set starts above the normal one;
\* the band-inclusion property must reject it.
TankBand_Shifted(flag, key, prev) ==
    IF flag = 0 THEN [lo |-> prev - NormalBand, hi |-> prev + NormalBand]
    ELSE [lo |-> prev - T(1000), hi |-> prev + T(4000)]

\* lines 370, 381, 389, 400, 408, 419: the band of a tank, chosen by its flag
TankBand(flag, key, prev) ==
    IF flag = 0 THEN [lo |-> prev - NormalBand, hi |-> prev + NormalBand]
    ELSE CASE key = "V_upsv_yu" -> [lo |-> prev - T(2000), hi |-> prev + T(4000)]
           [] key = "V_upsv_s" -> [lo |-> prev - T(1500), hi |-> prev + T(2000)]
           [] key = "V_upsv_cps" -> [lo |-> prev - T(2000), hi |-> prev + T(3300)]

\* lines 369-383: with the flag set the band is looked at and nothing else is done
ValidateTank(flag, value, prev, key) ==
    IF flag = 0
    THEN Validate(value, TankBand(flag, key, prev).lo, TankBand(flag, key, prev).hi, key)
    ELSE value

CPPN_1(d, inp) ==
    LET c == CPPN_1_computed(d, inp)
        V_upsv_yu == ValidateTank(d.flag_list[1], c.V_upsv_yu, d.V_upsv_yu_prev, "V_upsv_yu")
        V_upsv_s == ValidateTank(d.flag_list[2], c.V_upsv_s, d.V_upsv_s_prev, "V_upsv_s")
        V_upsv_cps == ValidateTank(d.flag_list[3], c.V_upsv_cps, d.V_upsv_cps_prev,
                                   "V_upsv_cps")
    IN [V_upsv_yu |-> V_upsv_yu,
        V_upsv_s |-> V_upsv_s,
        V_upsv_cps |-> V_upsv_cps,
        V_cppn_1_0 |-> d.V_upsv_yu_0 + d.V_upsv_s_0 + d.V_upsv_cps_0,
        V_cppn_1 |-> V_upsv_yu + V_upsv_s + V_upsv_cps,
        V_lodochny_cps_upsv_yu |-> d.V_lodochny_cps_upsv_yu_prev + d.V_lodochny_upsv_yu
                                   - d.G_sikn_tagul]

-----------------------------------------------------------------------------
(* calculate.sikn_1208 and its inputs *)

prepare_sikn_1208_data(n, prev_days, m, suzun_results, lodochny_results, G_suzun_tng, cppn1_results) ==
    [G_suzun_vslu |-> suzun_results.G_suzun_vslu,
     G_sikn_tagul_lod_data |-> lodochny_results.G_sikn_tagul_month,
     G_buy_day |-> suzun_results.G_buy_day,
     G_per |-> suzun_results.G_per,
     G_suzun |-> suzun_results.G_suzun,
     G_suzun_sikn_data |-> MonthOf(m, "suzun_sikn_data"),
     G_sikn_suzun_data |-> MonthOf(m, "sikn_suzun_data"),
     G_suzun_tng |-> G_suzun_tng,
     G_suzun_tng_data |-> MonthOf(m, "suzun_tng_data"),
     Q_vankor |-> DayOf(n, "gtm_vn"),
     V_upsv_yu |-> DayOf(n, "upsv_yu"),
     V_upsv_s |-> DayOf(n, "upsv_s"),
     V_upsv_cps |-> DayOf(n, "upsv_cps"),
     V_upsv_yu_prev |-> DayOf(prev_days, "upsv_yu"),
     V_upsv_s_prev |-> DayOf(prev_days, "upsv_s"),
     V_upsv_cps_prev |-> DayOf(prev_days, "upsv_cps"),
     G_lodochny_uspv_yu |-> lodochny_results.G_lodochny_uspv_yu,
     G_sikn_data |-> MonthOf(m, "sikn_data"),
     G_sikn_vankor_data |-> MonthOf(m, "sikn_vankor_data"),
     V_cppn_1 |-> cppn1_results.V_cppn_1,
     G_skn_data |-> MonthOf(m, "skn_data")]

VCppn1Prev == T(123)

sikn_1208(d, inp) ==
    LET G_sikn_vslu == d.G_suzun_vslu
        G_sikn_tagul == d.G_sikn_tagul_lod_data
        G_sikn_suzun == d.G_suzun + d.G_buy_day - d.G_per
        G_sikn_tng == d.G_suzun_tng
        G_sikn == d.Q_vankor + d.G_suzun - (d.V_upsv_yu - d.V_upsv_yu_prev)
                  - (d.V_upsv_s - d.V_upsv_s_prev) - (d.V_upsv_cps - d.V_upsv_cps_prev)
                  + d.G_lodochny_uspv_yu + inp.K_delte_g_sikn + d.G_buy_day + d.G_per
        G_sikn_vankor == G_sikn - G_sikn_tagul - G_sikn_suzun - G_sikn_tng
    IN [G_sikn_vslu |-> G_sikn_vslu,
        G_sikn_vslu_month |-> ArraySum(d.G_suzun_sikn_data) + G_sikn_vslu,
        G_sikn_tagul |-> G_sikn_tagul,
        G_sikn_suzun |-> G_sikn_suzun,
        G_sikn_suzun_month |-> ArraySum(d.G_sikn_suzun_data) + G_sikn_suzun,
        G_sikn_tng |-> G_sikn_tng,
        G_sikn_tng_month |-> ArraySum(d.G_suzun_tng_data) + d.G_suzun_tng,
        G_sikn |-> G_sikn,
        G_sikn_month |-> ArraySum(d.G_sikn_data) + G_sikn,
        G_sikn_vankor |-> G_sikn_vankor,
        G_sikn_vankor_month |-> ArraySum(d.G_sikn_vankor_data) + G_sikn_vankor,
        G_skn_month |-> ArraySum(d.G_skn_data),
        G_delta_sikn |-> d.Q_vankor + d.G_suzun + d.G_lodochny_uspv_yu - G_sikn
                         - (d.V_cppn_1 - VCppn1Prev) + d.G_buy_day - d.G_per]

-----------------------------------------------------------------------------
(* calculate.TSTN and its inputs *)

\* VN_min_gnsp = 2686.761
VN_min_gnsp == T(2686) + 761 * (Scale \div 1000)

prepare_TSTN_data(n, prev_days, prev_month, m, N, sikn_1208_results, lodochny_results, kchng_results, suzun_results, G_ichem, G_suzun_tng) ==
    [V_gnsp_0 |-> DayOf(prev_month, "gnsp"),
     N |-> N,
     VN_min_gnsp |-> VN_min_gnsp,
     G_sikn |-> sikn_1208_results.G_sikn,
     G_gpns_data |-> MonthOf(m, "gpns_data"),
     V_gnsp_prev |-> DayOf(prev_days, "gnsp"),
     flag_list |-> <<0, 0, 0, 0>>,
     V_nps_1_prev |-> DayOf(prev_days, "nps_1"),
     V_nps_2_prev |-> DayOf(prev_days, "nps_2"),
     G_tagul |-> lodochny_results.G_tagul,
     G_upn_lodochny |-> lodochny_results.G_upn_lodochny,
     G_kchng |-> kchng_results.G_kchng,
     V_knps_prev |-> DayOf(prev_days, "knps"),
     V_nps_1_0 |-> DayOf(prev_month, "nps_1"),
     V_nps_2_0 |-> DayOf(prev_month, "nps_2"),
     V_knps_0 |-> DayOf(prev_month, "knps"),
     G_suzun_vslu |-> suzun_results.G_suzun_vslu,
     V_tstn_suzun_vslu_prev |-> DayOf(prev_days, "tstn_vslu"),
     F_suzun_vankor |-> MonthOf(m, "suzun_vankor"),
     V_tstn_suzun_vankor_prev |-> DayOf(prev_days, "tstn_suzun_vankor"),
     G_buy_day |-> suzun_results.G_buy_day,
     G_per |-> suzun_results.G_per,
     V_suzun_put_0 |-> DayOf(prev_month, "suzun_put"),
     V_tstn_suzun_prev |-> DayOf(prev_days, "tstn_suzun"),
     G_suzun_slu |-> suzun_results.G_suzun_slu,
     V_tstn_skn_prev |-> DayOf(prev_days, "tstn_skn"),
     F_skn |-> DayOf(n, "_F_skn"),
     V_tstn_vo_prev |-> DayOf(prev_days, "tstn_vo"),
     G_ichem |-> G_ichem,
     F_vo |-> MonthOf(m, "volume_vostok_oil"),
     F_tng |-> MonthOf(m, "volume_taymyr"),
     G_suzun_tng |-> G_suzun_tng,
     V_tstn_tng_prev |-> DayOf(prev_days, "tstn_tng"),
     V_tstn_tagul_prev |-> DayOf(prev_days, "tstn_tagul"),
     F_kchng |-> MonthOf(m, "volum_kchng"),
     V_tstn_kchng_prev |-> DayOf(prev_days, "tstn_kchng"),
     V_tstn_lodochny_prev |-> DayOf(prev_days, "tstn_lodochny"),
     G_sikn_tagul |-> sikn_1208_results.G_sikn_tagul,
     F_tagul_lpu |-> MonthOf(m, "volume_lodochny"),
     V_tstn_rn_vn_prev |-> DayOf(prev_days, "tstn_rn_vn")]

\* F * (K / 100)
MulPct(F, K) == MulK(F, K) \div 100

\* lines 744-764 (and 766-830): the band around the previous value, chosen by the flag
StockBand(flag, key, prev, band) ==
    IF flag = 0 THEN [lo |-> prev - band, hi |-> prev + band]
    ELSE [lo |-> prev - T(2000),
          hi |-> prev + (IF key \in {"V_gnsp", "V_knsp"} THEN T(3000) ELSE T(4000))]

ValidateStock(flag, value, prev, band, key) ==
    Validate(value, StockBand(flag, key, prev, band).lo, StockBand(flag, key, prev, band).hi,
             key)

StartStock == T(123)

\* TSTN step by step: the value computed for every validated field, and the values
\* the stage keeps
TSTN_steps(d, inp) ==
    LET N == d.N
        F_suzun_vankor == to_float(d.F_suzun_vankor)
        F_tng == to_float(d.F_tng)
        F_vo == to_float(d.F_vo)
        F_kchng == to_float(d.F_kchng)
        F_tagul_lpu == to_float(d.F_tagul_lpu)
        F_suzun == T(123)
        F == 0
        F_tagul == T(123)
        G_gpns_i == d.G_sikn + DivN(d.V_gnsp_0 - d.VN_min_gnsp, N)
        G_gpns_month == ArraySum(d.G_gpns_data) + G_gpns_i
        G_gpns == DivN(G_gpns_month, N)
        c_V_gnsp == d.V_gnsp_prev + d.G_sikn - G_gpns
        V_gnsp == ValidateStock(d.flag_list[1], c_V_gnsp, d.V_gnsp_prev, T(1500), "V_gnsp")
        c_V_nps_1 == d.V_nps_1_prev
        V_nps_1 == ValidateStock(d.flag_list[2], c_V_nps_1, d.V_nps_1_prev, T(700), "V_nps_1")
        c_V_nps_2 == d.V_nps_2_prev
        V_nps_2 == ValidateStock(d.flag_list[2], c_V_nps_2, d.V_nps_2_prev, T(700), "V_nps_2")
        c_V_knsp == (G_gpns - F + d.V_knps_prev + d.G_tagul + d.G_upn_lodochny + inp.G_skn
                     + d.G_kchng) - (V_nps_2 - d.V_nps_2_prev) - (V_nps_1 - d.V_nps_1_prev)
        V_knsp == ValidateStock(d.flag_list[3], c_V_knsp, d.V_knps_prev, T(1500), "V_knsp")
        V_tstn_0 == d.V_gnsp_0 + d.V_nps_1_0 + d.V_nps_2_0 + d.V_knps_0
        V_tstn == d.V_gnsp_prev + d.V_nps_1_prev + d.V_nps_2_prev + d.V_knps_prev
        c_V_tstn_suzun_vslu == d.V_tstn_suzun_vslu_prev - inp.F_suzun_vslu + d.G_suzun_vslu
                               - MulPct(inp.F_suzun_vslu, inp.K_suzun)
        V_tstn_suzun_vslu == Validate(c_V_tstn_suzun_vslu, T(900), T(4000), "V_tstn_suzun_vslu")
        c_V_tstn_suzun_vankor == d.V_tstn_suzun_vankor_prev - F_suzun_vankor
                                 + (d.G_buy_day - d.G_per) - MulPct(F_suzun_vankor, inp.K_vankor)
        V_tstn_suzun_vankor ==
            Validate(c_V_tstn_suzun_vankor, T(900), T(5000), "V_tstn_suzun_vankor")
        c_V_tstn_suzun_0 == d.V_suzun_put_0 - StartStock - StartStock
        V_tstn_suzun_0 == Validate(c_V_tstn_suzun_0, T(2000), T(6000), "V_tstn_suzun_0")
        c_V_tstn_suzun == d.V_tstn_suzun_prev - F_suzun + d.G_suzun_slu
                          - MulPct(F_suzun, inp.K_suzun)
        V_tstn_suzun == Validate(c_V_tstn_suzun, T(2000), T(6000), "V_tstn_suzun")
        c_V_tstn_skn == d.V_tstn_skn_prev - d.F_skn + inp.G_skn - MulPct(d.F_skn, inp.K_skn)
        V_tstn_skn == Validate(c_V_tstn_skn, T(3000), T(8000), "V_tstn_skn")
        c_V_tstn_vo == d.V_tstn_vo_prev + d.G_ichem - F_vo - MulPct(F_vo, inp.K_ichem)
        V_tstn_vo == Validate(c_V_tstn_vo, T(1000), T(6000), "V_tstn_vo")
        c_V_tstn_tng == d.V_tstn_tng_prev + d.G_suzun_tng - F_tng - MulPct(F_tng, inp.K_payaha)
        V_tstn_tng == Validate(c_V_tstn_tng, T(300), T(6000), "V_tstn_tng")
        c_V_tstn_kchng == d.V_tstn_kchng_prev + d.G_kchng - F_kchng
                          - MulPct(F_kchng, inp.K_tagul)
        V_tstn_kchng == Validate(c_V_tstn_kchng, T(1000), T(6000), "V_tstn_kchng")
        c_V_tstn_tagul == d.V_tstn_tagul_prev + d.G_tagul - F_tagul
                          - MulPct(F_tagul, inp.K_tagul)
        V_tstn_tagul_1 == Validate(c_V_tstn_tagul, T(4000), T(12000), "V_tstn_tagul")
        c_V_tstn_lodochny == d.V_tstn_lodochny_prev + d.G_sikn_tagul - F_tagul_lpu
                             - MulPct(F_tagul_lpu, inp.K_lodochny)
        V_tstn_lodochny == Validate(c_V_tstn_lodochny, T(3000), T(11000), "V_tstn_lodochny")
        V_tstn_tagul_obsh_0 == StartStock + StartStock
        V_tstn_tagul_obsh == V_tstn_tagul_1 + V_tstn_lodochny
        V_tstn_tagul == Validate(V_tstn_tagul_1, T(3000), T(11000), "V_tstn_tagul")
        V_tstn_rn_vn == d.V_tstn_rn_vn_prev
        c_V_tstn_vn_0 == V_tstn_0 - StartStock - V_tstn_suzun_0 - V_tstn_tagul_obsh_0
                         - StartStock - StartStock - StartStock - StartStock - StartStock
                         - StartStock
        V_tstn_vn_0 == Validate(c_V_tstn_vn_0, T(4000), T(11000), "V_tstn_vn_0")
        c_V_tstn_vn == V_tstn - V_tstn_rn_vn - V_tstn_suzun - V_tstn_tagul_obsh
                       - V_tstn_suzun_vankor - V_tstn_suzun_vslu - V_tstn_skn - V_tstn_vo
                       - V_tstn_tng - V_tstn_kchng
        V_tstn_vn == Validate(c_V_tstn_vn, T(4000), T(11000), "V_tstn_vn")
    IN [computed |->
          [V_gnsp |-> c_V_gnsp, V_nps_1 |-> c_V_nps_1, V_nps_2 |-> c_V_nps_2,
           V_knsp |-> c_V_knsp, V_tstn_suzun_vslu |-> c_V_tstn_suzun_vslu,
           V_tstn_suzun_vankor |-> c_V_tstn_suzun_vankor,
           V_tstn_suzun_0 |-> c_V_tstn_suzun_0, V_tstn_suzun |-> c_V_tstn_suzun,
           V_tstn_skn |-> c_V_tstn_skn, V_tstn_vo |-> c_V_tstn_vo,
           V_tstn_tng |-> c_V_tstn_tng, V_tstn_kchng |-> c_V_tstn_kchng,
           V_tstn_tagul |-> c_V_tstn_tagul, V_tstn_lodochny |-> c_V_tstn_lodochny,
           V_tstn_vn |-> c_V_tstn_vn, V_tstn_vn_0 |-> c_V_tstn_vn_0],
        accepted |->
          [G_gpns_i |-> G_gpns_i, G_gpns_month |-> G_gpns_month, G_gpns |-> G_gpns,
           V_gnsp |-> V_gnsp, V_nps_1 |-> V_nps_1, V_nps_2 |-> V_nps_2, V_knsp |-> V_knsp,
           V_tstn_0 |-> V_tstn_0, V_tstn |-> V_tstn,
           V_tstn_suzun_vslu |-> V_tstn_suzun_vslu,
           V_tstn_suzun_vankor |-> V_tstn_suzun_vankor, V_tstn_suzun_0 |-> V_tstn_suzun_0,
           V_tstn_suzun |-> V_tstn_suzun, V_tstn_skn |-> V_tstn_skn,
           V_tstn_vo |-> V_tstn_vo, V_tstn_tng |-> V_tstn_tng,
           V_tstn_kchng |-> V_tstn_kchng, V_tstn_tagul |-> V_tstn_tagul,
           V_tstn_lodochny |-> V_tstn_lodochny, V_tstn_tagul_obsh |-> V_tstn_tagul_obsh,
           V_tstn_tagul_obsh_0 |-> V_tstn_tagul_obsh_0, V_tstn_rn_vn |-> V_tstn_rn_vn,
           V_tstn_vn |-> V_tstn_vn, V_tstn_vn_0 |-> V_tstn_vn_0]]

\* lines 978-984: the dict TSTN returns; V_tstn_suzun_vslu is returned under a key
\* written with a leading space
TSTN(d, inp) ==
    LET accepted == TSTN_steps(d, inp).accepted
    IN (" V_tstn_suzun_vslu" :> accepted.V_tstn_suzun_vslu)
       @@ Pop(accepted, {"V_tstn_suzun_vslu"})

-----------------------------------------------------------------------------
(* main: one day through the eight stages *)

\* main passes (n, m, prev_month) where prepare_sikn_1208_data takes
\* (n, prev_days, m): the month number is read as a date, which
\* pd.to_datetime turns into 1970-01-01, and the Timestamp is read as a month
\* number, which equals the month of no row
EpochDate == [month |-> 0, day |-> 1]
TimestampAsMonth(ts) == 0

\* main, lines 176-245: each stage of the day n, given the stages before it
StageSuzun(n) ==
    LET suzun_data == prepare_suzun_data(n, n.month, prev_day_of(n), prev_month_of(n),
                                         monthrange(n.month))
    IN [suzun_data |-> suzun_data, suzun_results |-> suzun(suzun_data, get_suzun_inputs)]

StageVO(n, st) == [vo_results |-> VO(prepare_vo_data(n, n.month))] @@ st

StageKchng(n, st) == [kchng_results |-> kchng(prepare_kchng_data(n, n.month))] @@ st

StageLodochny(n, st) ==
    LET lodochny_data ==
            prepare_lodochny_data(n, n.month, prev_day_of(n), prev_month_of(n),
                                  monthrange(n.month), n.day, st.kchng_results)
    IN [lodochny_data |-> lodochny_data,
        lodochny_results |-> lodochny(lodochny_data, get_lodochny_inputs)] @@ st

\* A variant of the CPPN_1 stage that is handed the lodochny results left over
\* from the day before; the stage-order property must reject it.
StageCPPN_1_Stale(n, st) ==
    LET before == StageLodochny(prev_day_of(n), st).lodochny_results
        cppn1_data == prepare_cppn1_data(n, prev_day_of(n), prev_month_of(n), before)
    IN [cppn1_data |-> cppn1_data,
        cppn1_results |-> CPPN_1(cppn1_data, get_cppn_1_inputs)] @@ st

StageCPPN_1(n, st) ==
    LET cppn1_data ==
            prepare_cppn1_data(n, prev_day_of(n), prev_month_of(n), st.lodochny_results)
    IN [cppn1_data |-> cppn1_data,
        cppn1_results |-> CPPN_1(cppn1_data, get_cppn_1_inputs)] @@ st

StageRnVankor(n, st) ==
    LET rn_data == prepare_rn_vankor_data(n, prev_day_of(n), monthrange(n.month), n.day,
                                          n.month)
    IN [rn_data |-> rn_data, rn_results |-> rn_vankor(rn_data, get_rn_vankor_inputs)] @@ st

StageSikn_1208(n, st) ==
    LET sikn_1208_data ==
            prepare_sikn_1208_data(n, EpochDate, TimestampAsMonth(prev_month_of(n)),
                                   st.suzun_results, st.lodochny_results,
                                   get_suzun_inputs.G_suzun_tng, st.cppn1_results)
    IN [sikn_1208_data |-> sikn_1208_data,
        sikn_1208_results |-> sikn_1208(sikn_1208_data, get_sikn_1208_inputs)] @@ st

StageTSTN(n, st) ==
    LET TSTN_data ==
            prepare_TSTN_data(n, prev_day_of(n), prev_month_of(n), n.month,
                              monthrange(n.month), st.sikn_1208_results,
                              st.lodochny_results, st.kchng_results, st.suzun_results,
                              get_lodochny_inputs.G_ichem, get_suzun_inputs.G_suzun_tng)
    IN [TSTN_data |-> TSTN_data,
        TSTN_computed |-> TSTN_steps(TSTN_data, get_TSTN_inputs).computed,
        TSTN_results |-> TSTN(TSTN_data, get_TSTN_inputs)] @@ st

\* main, lines 167-245: the data and the results of every stage for the day n
DayStages(n) ==
    StageTSTN(n, StageSikn_1208(n, StageRnVankor(n, StageCPPN_1(n, StageLodochny(n,
        StageKchng(n, StageVO(n, StageSuzun(n))))))))

\* day_result after every update, a later stage's key replacing an earlier one
DayResult(n, st) ==
    st.TSTN_results @@ st.sikn_1208_results @@ Pop(st.rn_results, AlarmKeys)
    @@ st.cppn1_results @@ st.lodochny_results @@ st.kchng_results @@ st.vo_results
    @@ st.suzun_results @@ [date |-> n]

\* every Source column a stage reads for a month or for a day
StageMonthColumns ==
    RnMonthColumns \cup
    {"buying_oil", "out_udt", "gtm_vn", "gtm_suzun", "gtm_vslu", "gtm_taymyr", "gtm_vostok",
     "per_data", "suzun_vslu_data", "suzun_data", "suzun_slu_data",
     "upn_lodochny_ichem_data", "kchng", "kchng_data", "gtm_tagulsk", "gtm_lodochny",
     "lodochny_uspv_yu_data", "sikn_tagul_data", "tagul_data", "delte_tagul_data",
     "lodochny_data", "delte_upn_lodochny_data", "tagul_lodochny_data", "gpns_data",
     "volume_taymyr"}
SiknMonthColumns ==
    {"suzun_sikn_data", "sikn_suzun_data", "suzun_tng_data", "sikn_data",
     "sikn_vankor_data", "skn_data"}
StageDayColumns ==
    RnDayColumns \cup
    {"suzun_tng", "gtm_vslu", "upn_suzun", "suzun_vslu", "gtm_suzun", "suzun_slu",
     "gtm_vostok", "kchng", "upn_lodochny", "ichem", "lodochny_ichem", "gtm_tagulsk",
     "lodochni_upsv_yu", "gtm_lodochny", "tagul", "upsv_yu", "upsv_s", "upsv_cps",
     "lodochny_cps_upsv_yu", "lodochny_upsv_yu", "gtm_vn", "gnsp", "nps_1", "nps_2",
     "knps", "suzun_put", "tstn_vslu", "tstn_suzun_vankor", "tstn_suzun", "tstn_skn",
     "_F_skn", "tstn_vo", "tstn_tng", "tstn_tagul", "tstn_kchng", "tstn_lodochny",
     "tstn_rn_vn"}

\* main, lines 167-247: the next day of the month.  The first resolver call of
\* the day is prepare_suzun_data's _safe_get_month_values(master_df, m,
\* "buying_oil"); when it raises, the exception leaves main: nothing is appended
\* and nothing is exported.
ProcessDay ==
    /\ pc = "ready"
    /\ Len(result_rows) < Len(get_day(today))
    /\ LET n == get_day(today)[Len(result_rows) + 1]
       IN IF safe_get_month_values(n.month, "buying_oil").exc
          THEN /\ pc' = "raised"
               /\ UNCHANGED <<alarm_flag, alarm_msg, result_rows, warning_cache>>
          ELSE LET st == DayStages(n)
               IN /\ alarm_flag' = st.rn_results.alarm_first_10_days
                  /\ alarm_msg' = st.rn_results.alarm_first_10_days_msg
                  /\ result_rows' = Append(result_rows, DayResult(n, st))
                  /\ warning_cache' =
                        warning_cache
                        \cup StageWarnings(n.month, StageMonthColumns, StageDayColumns)
                        \cup StageWarnings(TimestampAsMonth(prev_month_of(n)),
                                           SiknMonthColumns, {})
                  /\ UNCHANGED pc
    /\ input_config_cache' = Some(get_input_config)
    /\ inputs_config' = Some(load_config)
    /\ UNCHANGED <<envVars, master_df_indexed, monthly_cache, output, ret>>

-----------------------------------------------------------------------------
(* json_export.export_to_json *)

\* _create_status_object(value, status, message)
create_status_object(value, status, message) ==
    [value |-> value, status |-> status, message |-> message]

\* row[field] if field in row else None
RowGet(row, field) == IF field \in DOMAIN row THEN Some(row[field]) ELSE None

monthly_fields ==
    {"G_per_month", "Q_vankor_month", "Q_suzun_month", "Q_vslu_month", "Q_tng_month",
     "Q_vo_month", "G_suzun_vslu_month", "G_suzun_slu_month", "G_suzun_month",
     "delta_G_suzun", "G_upn_lodochny_ichem_month", "Q_kchng_month", "G_kchng_month",
     "Q_tagulsk_month", "Q_lodochny_month", "K_otkachki_month", "G_lodochny_uspv_yu",
     "G_upn_lodochny_month", "G_tagul_month", "delta_G_tagul_month",
     "G_tagul_lodochny_month", "G_lodochny_month", "G_sikn_vslu_month",
     "G_sikn_tagul_month", "G_sikn_suzun_month", "G_sikn_tng_month", "G_sikn_month",
     "G_sikn_vankor_month", "G_skn_month", "delta_G_sikn_month", "F_suzun_vankor_month",
     "F_suzun_vslu_month", "F_tagul_lpu_month", "F_tagul_tpu_month", "F_tagul_month",
     "F_skn_month", "F_vo_month", "F_tng_month", "F_kchng_month", "F_month",
     "G_gnps_month"}

\* field.replace("F_", "F_bp_", 1) for the fields that start with F_ and end with _month
BpField(field) ==
    CASE field = "F_suzun_vankor_month" -> Some("F_bp_suzun_vankor_month")
      [] field = "F_suzun_vslu_month" -> Some("F_bp_suzun_vslu_month")
      [] field = "F_tagul_lpu_month" -> Some("F_bp_tagul_lpu_month")
      [] field = "F_tagul_tpu_month" -> Some("F_bp_tagul_tpu_month")
      [] field = "F_tagul_month" -> Some("F_bp_tagul_month")
      [] field = "F_skn_month" -> Some("F_bp_skn_month")
      [] field = "F_vo_month" -> Some("F_bp_vo_month")
      [] field = "F_tng_month" -> Some("F_bp_tng_month")
      [] field = "F_kchng_month" -> Some("F_bp_kchng_month")
      [] field = "F_month" -> Some("F_bp_month")
      [] OTHER -> None

\* lines 168-201: the monthly totals, from the rows of the last month
MonthlyTotals(rows) ==
    LET last == rows[Len(rows)]
        \* field.endswith("_month")
        EndsWithMonth(field) == field \notin {"delta_G_suzun", "G_lodochny_uspv_yu"}
        total(field) ==
            IF field \in DOMAIN last
            THEN IF EndsWithMonth(field) THEN Some(last[field])
                 ELSE Some(SumTo([i \in 1..Len(rows) |-> Some(rows[i][field])], Len(rows)))
            ELSE IF ~IsNone(BpField(field)) THEN RowGet(last, Val(BpField(field)))
            ELSE None
        F_month == IF "F_bp_month" \in DOMAIN last THEN Some(last.F_bp_month)
                   ELSE total("F_month")
        F_tagul_month ==
            IF {"F_bp_tagul_lpu_month", "F_bp_tagul_tpu_month"} \subseteq DOMAIN last
            THEN Some(last.F_bp_tagul_lpu_month + last.F_bp_tagul_tpu_month)
            ELSE total("F_tagul_month")
    IN [field \in monthly_fields |->
          CASE field = "F_month" -> F_month
            [] field = "F_tagul_month" -> F_tagul_month
            [] OTHER -> total(field)]

\* lines 206-223: the checks of the month; an alarm marks F_sr
ValidationChecks(flag, msg) ==
    [field \in {"F_sr", "V_vn_check", "V_suzun_check", "V_lodochny_check", "V_vo_check",
                "V_tagul_check", "V_vn_gtm_check", "V_suzun_gtm_check", "V_vo_gtm_check",
                "V_lodochny_gtm_check", "V_tagul_gtm_check"} |->
        IF field = "F_sr" /\ flag
        THEN create_status_object(None, 1, IF IsNone(msg) THEN "default" ELSE Val(msg))
        ELSE create_status_object(None, 0, "")]

regular_fields ==
    {"Q_vankor", "V_cppn_1", "G_sikn", "G_sikn_vankor", "G_sikn_suzun", "G_sikn_vslu",
     "G_sikn_tng", "G_delte_sikn", "Q_suzun", "Q_vslu", "V_suzun_slu", "V_suzun_vslu",
     "V_suzun_tng", "G_suzun", "G_suzun_slu", "G_suzun_vslu", "G_suzun_tng",
     "delta_G_suzun", "Q_tng", "G_payaha", "G_buy_day", "G_out_udt_day", "G_per",
     "Q_tagul", "G_tagul", "delta_G_tagul", "Q_lodochny", "G_lodochny_uspv_yu",
     "V_lodochny", "G_upn_lodochny", "G_lodochny", "G_ichem", "delta_G_upn_lodochny",
     "Q_vo", "G_upn_lodochny_ichem", "G_tagul_lodochny", "Q_kchng", "G_kchng", "G_skn",
     "G_gnps", "V_tstn", "V_tstn_rn_vn"}

\* field_mapping.get(field, field)
field_mapping(field) == IF field = "G_out_udt_day" THEN "G_out_updt_day" ELSE field

status_fields ==
    {"V_upsv_yu", "V_upsv_s", "V_upsv_cps", "V_lodochny_cps_upsv_yu", "G_sikn_tagul",
     "V_upn_suzun", "V_tagul", "V_upn_lodochny", "V_ichem", "V_gnps", "V_nps_1", "V_nps_2",
     "V_knsp", "V_tstn_vn", "V_tstn_suzun", "V_tstn_suzun_vankor", "V_tstn_suzun_vslu",
     "V_tstn_tagul_obsh", "V_tstn_lodochny", "V_tstn_tagul", "V_tstn_skn", "V_tstn_vo",
     "V_tstn_tng", "V_tstn_kchng", "F_bp", "F_bp_vn", "F_bp_suzun", "F_bp_suzun_vankor",
     "F_bp_suzun_vslu", "F_bp_tagul_lpu", "F_bp_tagul_tpu", "F_bp_skn", "F_bp_vo",
     "F_bp_kchng", "Q_gnps", "Q_nps_1_2", "Q_knps"}

\* status_field_mapping.get(field, field)
status_field_mapping(field) ==
    CASE field = "V_upsv_cps" -> "V_cps"
      [] field = "F_bp" -> "F"
      [] field = "F_bp_vn" -> "F_vn"
      [] field = "F_bp_suzun" -> "F_suzun"
      [] field = "F_bp_suzun_vankor" -> "F_suzun_vankor"
      [] field = "F_bp_suzun_vslu" -> "F_suzun_vslu"
      [] field = "F_bp_tagul" -> "F_tagul"
      [] field = "F_bp_tagul_lpu" -> "F_tagul_lpu"
      [] field = "F_bp_tagul_tpu" -> "F_tagul_tpu"
      [] field = "F_bp_skn" -> "F_skn"
      [] field = "F_bp_vo" -> "F_vo"
      [] field = "F_bp_kchng" -> "F_kchng"
      [] OTHER -> field

\* lines 258-356: the exported object of one day
ExportDay(row) ==
    LET regular == [o \in {field_mapping(f) : f \in regular_fields} |->
                      RowGet(row, CHOOSE f \in regular_fields : field_mapping(f) = o)]
        \* lines 293-307: status objects added before the status fields
        early_status_fields ==
            {"F_tng", "F_suzun_vslu", "F_suzun_vankor", "Q_gnps", "Q_nps_1_2", "Q_knps"}
        early == [o \in early_status_fields \ DOMAIN regular |->
                    create_status_object(RowGet(row, o), 0, "")]
        before == early @@ regular
        late == {f \in status_fields : status_field_mapping(f) \notin DOMAIN before}
        status == [o \in {status_field_mapping(f) : f \in late} |->
                     LET field == CHOOSE f \in late : status_field_mapping(f) = o
                         value == RowGet(row, field)
                     IN create_status_object(value, 0, "")]
        day_data == status @@ before
        or0(o) == IF o \in DOMAIN day_data /\ ~IsNone(day_data[o].value)
                  THEN Val(day_data[o].value) ELSE 0
        F_tagul == create_status_object(Some(or0("F_tagul_lpu") + or0("F_tagul_tpu")), 0, "")
    IN ("F_tagul" :> F_tagul) @@ day_data @@ ("date" :> Some(row.date))

\* lines 361-365: the document
ExportDocument(rows, flag, msg) ==
    ("days" :> [i \in 1..Len(rows) |-> ExportDay(rows[i])])
    @@ ValidationChecks(flag, msg) @@ MonthlyTotals(rows)

\* main, lines 251-264: after the last day the rows are exported
export_to_json ==
    /\ pc = "ready"
    /\ Len(result_rows) = Len(get_day(today))
    /\ output' = Some(ExportDocument(result_rows, alarm_flag, alarm_msg))
    /\ pc' = "done"
    /\ UNCHANGED <<envVars, dpVars, inputs_config, result_rows, alarm_flag, alarm_msg, ret>>

-----------------------------------------------------------------------------
(* The whole run: main from build_all_data to export_to_json *)

\* a Source is filled from a profile: the level of every stock on the last day
\* of the month before, its daily change, and the cells of the carry-over columns
Profiles ==
    {[stock |-> T(1000), step |-> 0, carry |-> 0],
     [stock |-> T(5000), step |-> T(100), carry |-> T(10)]}

CarryColumns ==
    {"per_data", "suzun_vslu_data", "suzun_data", "suzun_slu_data",
     "upn_lodochny_ichem_data", "kchng_data", "lodochny_uspv_yu_data", "sikn_tagul_data",
     "tagul_data", "delte_tagul_data", "lodochny_data", "delte_upn_lodochny_data",
     "tagul_lodochny_data", "gpns_data", "bp_data", "bp_vn_data", "bp_suzun_data",
     "bp_suzun_vankor_data", "bp_suzun_vslu_data", "bp_tagul_lpu_data",
     "bp_tagul_tpu_data", "bp_skn_data", "bp_vo_data", "bp_kchng_data"}
    \cup SiknMonthColumns

SourceCell(c, m, d, p) ==
    CASE c \in CarryColumns -> Some(p.carry)
      [] c \in {"volume_vankor", "suzun_vankor", "volume_lodochny", "volume_tagulsk",
                "volume_vostok_oil", "volum_kchng", "volume_taymyr", "skn"} ->
            Some(T(14000))
      [] c = "volume_suzun" -> Some(T(20010))
      [] c = "buying_oil" -> Some(T(2800))
      [] c = "out_udt" -> Some(T(1400))
      [] c = "gtm_vslu" -> Some(T(300))
      [] c = "lodochni_upsv_yu" -> Some(T(90))
      [] c \in {"gtm_vn", "gtm_suzun", "gtm_taymyr", "gtm_vostok", "gtm_tagulsk",
                "gtm_lodochny", "kchng", "lodochny_ichem", "_F_skn"} -> Some(T(900))
      [] c = "ctn_suzun_vslu_norm" -> Some(T(500))
      [] c = "ctn_suzun_vslu" -> Some(T(500) + T(100) * d.day)
      [] OTHER -> Some(p.stock + p.step * (IF d.month = m THEN d.day ELSE 0))

Source(m, p) ==
    LET SourceColumns == StageMonthColumns \cup SiknMonthColumns \cup StageDayColumns
    IN [columns |-> {"date"} \cup SourceColumns,
        rows |-> [i \in 1..Len(SourceDates(m)) |->
                    [date |-> SourceDates(m)[i],
                     cells |-> [c \in SourceColumns |->
                                  SourceCell(c, m, SourceDates(m)[i], p)]]]]

\* input.json: the parameters of the stages, a manual level of the UPSV-Yug
\* tank, manual corrections, a monthly_data entry that is not a number, and a
\* zero extraction of the month before
StageParams ==
    [suzun |-> [G_payaha |-> T(50), G_suzun_tng |-> T(50), K_g_suzun |-> T(10)],
     lodochny |-> [G_ichem |-> T(20), K_otkachki |-> Scale \div 10,
                   K_gupn_lodochny |-> T(10), K_g_tagul |-> T(5)],
     sikn_1208 |-> [K_delte_g_sikn |-> T(5)],
     tstn |-> [K_suzun |-> T(1), K_vankor |-> T(1), F_suzun_vslu |-> T(300),
               G_skn |-> T(900), K_skn |-> T(1), K_ichem |-> T(1), K_payaha |-> T(1),
               K_tagul |-> T(1), K_lodochny |-> T(1)]]

Docs ==
    LET ManualTank == ("cppn_1" :> [manual_V_upsv_yu |-> Some(T(2600))]) @@ StageParams
        Corrections(V_upsv_yu) ==
            "manual_corrections" :>
                [V_upsv_yu |-> Some(V_upsv_yu), V_tstn_skn |-> Some(T(4000))]
    IN {EmptyDict, StageParams, ManualTank,
        Corrections(T(2400)) @@ ManualTank,
        Corrections(T(2400) + Scale \div 2) @@ ManualTank,
        [monthly_data |-> [buying_oil |-> JStr(None)]],
        [lodochny |-> [Q_tagul_prev_month |-> Some(0)] @@ StageParams.lodochny]}

\* what a document that cannot be parsed was meant to say: stage parameters, a
\* manual tank level, manual corrections and a monthly_data entry
UnparsedDoc ==
    ("monthly_data" :> [buying_oil |-> JNum(T(7000))])
    @@ ("manual_corrections" :> [V_upsv_yu |-> Some(T(2400)), V_tstn_skn |-> Some(T(4000))])
    @@ ("cppn_1" :> [manual_V_upsv_yu |-> Some(T(2600))])
    @@ StageParams

\* a Source that build_all_data delivered without its date column
SourceWithoutDate(m) ==
    [Source(m, CHOOSE p \in Profiles : TRUE) EXCEPT !.columns = @ \ {"date"}]

Init ==
    /\ today \in Months
    /\ input_json \in {[ok |-> TRUE, doc |-> d] : d \in Docs}
                    \cup {[ok |-> FALSE, doc |-> UnparsedDoc]}
    /\ master_df \in {Source(today, p) : p \in Profiles} \cup {SourceWithoutDate(today)}
    /\ input_config_cache = None
    /\ master_df_indexed = None
    /\ monthly_cache = None
    /\ warning_cache = {}
    /\ inputs_config = None
    /\ result_rows = <<>>
    /\ alarm_flag = FALSE
    /\ alarm_msg = None
    /\ output = None
    /\ pc = "start"
    /\ ret = NoCall

\* A variant of the start of main without the check of the date column: the
\* Source goes to init_monthly_cache as it is.
main_start_Unchecked == init_monthly_cache

\* main, lines 124-141: the Source is checked for its date column, then the
\* cache is initialised
main_start ==
    IF "date" \notin master_df.columns
    THEN /\ pc = "start"
         /\ pc' = "raised"
         /\ UNCHANGED <<envVars, input_config_cache, master_df_indexed, monthly_cache,
                        warning_cache, runVars, ret>>
    ELSE init_monthly_cache

Next ==
    \/ main_start
    \/ ProcessDay
    \/ export_to_json

Spec == Init /\ [][Next]_vars

-----------------------------------------------------------------------------
(* Claims about the whole run, checked under Spec *)

\* the stages of the d-th day of the run, recomputed from the Source and input.json
StagesOfDay(d) == DayStages(get_day(today)[d])

\* C1: after days 1..N every running monthly total in day N's row is the
\* carry-over sum of its field plus the sum of the field's daily values of days
\* 1..N, each day counted once.
C1_MonthlyTotals ==
    (pc = "ready" /\ Len(result_rows) = monthrange(today)) =>
        \A g \in {<<"G_per_month", "G_per", "per_data">>,
                  <<"G_suzun_month", "G_suzun", "suzun_data">>,
                  <<"G_kchng_month", "G_kchng", "kchng_data">>,
                  <<"G_tagul_month", "G_tagul", "tagul_data">>,
                  <<"F_bp_vn_month", "F_bp_vn", "bp_vn_data">>,
                  <<"F_bp_month", "F_bp", "bp_data">>,
                  <<"G_sikn_month", "G_sikn", "sikn_data">>} :
            result_rows[monthrange(today)][g[1]] =
                ArraySum(MonthOf(today, g[3])) + RowSum(g[2], monthrange(today))

\* the validated fields of a day: the computed value, the band, and the key of
\* the accepted value in the day's results
ValidatedFields(st) ==
    LET tank == CPPN_1_computed(st.cppn1_data, get_cppn_1_inputs)
        c == st.TSTN_computed
        around(field, computed, prev, band) ==
            [field |-> field, computed |-> computed, lo |-> prev - band, hi |-> prev + band]
        within(field, lo, hi) ==
            [field |-> field, computed |-> c[field], lo |-> T(lo), hi |-> T(hi)]
    IN {around("V_upsv_yu", tank.V_upsv_yu, st.cppn1_data.V_upsv_yu_prev, T(1500)),
        around("V_upsv_s", tank.V_upsv_s, st.cppn1_data.V_upsv_s_prev, T(1500)),
        around("V_upsv_cps", tank.V_upsv_cps, st.cppn1_data.V_upsv_cps_prev, T(1500)),
        around("V_gnsp", c.V_gnsp, st.TSTN_data.V_gnsp_prev, T(1500)),
        around("V_nps_1", c.V_nps_1, st.TSTN_data.V_nps_1_prev, T(700)),
        around("V_nps_2", c.V_nps_2, st.TSTN_data.V_nps_2_prev, T(700)),
        around("V_knsp", c.V_knsp, st.TSTN_data.V_knps_prev, T(1500)),
        within("V_tstn_suzun_vankor", 900, 5000), within("V_tstn_suzun", 2000, 6000),
        within("V_tstn_skn", 3000, 8000), within("V_tstn_vo", 1000, 6000),
        within("V_tstn_tng", 300, 6000), within("V_tstn_kchng", 1000, 6000),
        within("V_tstn_lodochny", 3000, 11000), within("V_tstn_vn", 4000, 11000)}

Rejected(v) == ~(v.lo <= v.computed /\ v.computed <= v.hi)

\* C8: for every validated inventory field, a computed value outside its band is
\* replaced by the manual correction of the field when there is one and kept
\* when there is none; a computed value inside the band is kept.  (Every row is
\* the last row of the state in which its day was processed.)
C8_AcceptedValue ==
    (pc = "ready" /\ Len(result_rows) > 0) =>
        \A v \in ValidatedFields(StagesOfDay(Len(result_rows))) :
            result_rows[Len(result_rows)][v.field] =
                IF Rejected(v) /\ ~IsNone(get_validation_value(v.field))
                THEN Val(get_validation_value(v.field))
                ELSE v.computed

\* C9: in the exported document every value that validation rejected on a day
\* carries a status other than OK and a message; only values accepted inside
\* their band carry status OK.
C9_RejectedIsTagged ==
    pc = "done" =>
        \A d \in 1..Len(result_rows) :
            \A v \in ValidatedFields(StagesOfDay(d)) :
                LET exported == Val(output).days[d]
                    name == status_field_mapping(v.field)
                IN Rejected(v) =>
                    /\ name \in DOMAIN exported
                    /\ exported[name].status # 0
                    /\ exported[name].message # ""

\* C10: on every day after the first, each previous-day input of a stage is the
\* value committed for that field in the row of the day before.
C10_PrevIsCommitted ==
    (pc = "ready" /\ Len(result_rows) > 1) =>
        LET st == StagesOfDay(Len(result_rows))
            before == result_rows[Len(result_rows) - 1]
        IN /\ st.cppn1_data.V_upsv_yu_prev = before.V_upsv_yu
           /\ st.cppn1_data.V_upsv_s_prev = before.V_upsv_s
           /\ st.cppn1_data.V_upsv_cps_prev = before.V_upsv_cps
           /\ st.suzun_data.V_upn_suzun_prev = before.V_upn_suzun
           /\ st.lodochny_data.V_upn_lodochny_prev = before.V_upn_lodochny
           /\ st.TSTN_data.V_gnsp_prev = before.V_gnsp
           /\ st.TSTN_data.V_nps_1_prev = before.V_nps_1
           /\ st.TSTN_data.V_nps_2_prev = before.V_nps_2
           /\ st.TSTN_data.V_knps_prev = before.V_knsp
           /\ st.TSTN_data.V_tstn_suzun_prev = before.V_tstn_suzun
           /\ st.TSTN_data.V_tstn_skn_prev = before.V_tstn_skn
           /\ st.TSTN_data.V_tstn_vo_prev = before.V_tstn_vo
           /\ st.TSTN_data.V_tstn_kchng_prev = before.V_tstn_kchng

\* C12: with a Source that has a date column, the rows of a run are the days of
\* the month in calendar order, one row per day starting at day 1, never more
\* than the N <= 31 days of the month, and a run that has ended has exactly N
\* rows.
C12_OneRowPerDay ==
    "date" \in master_df.columns =>
        /\ Len(result_rows) <= monthrange(today)
        /\ monthrange(today) <= 31
        /\ \A i \in 1..Len(result_rows) : result_rows[i].date = Date(today, i)
        /\ pc \in {"done", "raised"} => Len(result_rows) = monthrange(today)

\* what the stages of the day n were handed, against what the day's stages produced
SameIterationOutputs(n, st, row) ==
    /\ st.lodochny_data.G_kchng = st.kchng_results.G_kchng
    /\ st.cppn1_data.G_sikn_tagul = st.lodochny_results.G_sikn_tagul
    /\ st.sikn_1208_data.G_suzun_vslu = st.suzun_results.G_suzun_vslu
    /\ st.sikn_1208_data.G_suzun = st.suzun_results.G_suzun
    /\ st.sikn_1208_data.G_sikn_tagul_lod_data = st.lodochny_results.G_sikn_tagul_month
    /\ st.sikn_1208_data.G_lodochny_uspv_yu = st.lodochny_results.G_lodochny_uspv_yu
    /\ st.sikn_1208_data.V_cppn_1 = st.cppn1_results.V_cppn_1
    /\ st.TSTN_data.G_sikn = st.sikn_1208_results.G_sikn
    /\ st.TSTN_data.G_sikn_tagul = st.sikn_1208_results.G_sikn_tagul
    /\ st.TSTN_data.G_tagul = st.lodochny_results.G_tagul
    /\ st.TSTN_data.G_upn_lodochny = st.lodochny_results.G_upn_lodochny
    /\ st.TSTN_data.G_kchng = st.kchng_results.G_kchng
    /\ st.TSTN_data.G_suzun_slu = st.suzun_results.G_suzun_slu
    /\ row = DayResult(n, st)

\* C13: on every day each stage output that another stage consumes is the one
\* produced earlier in the same iteration: lodochny receives the day's kchng
\* result, CPPN_1 the day's lodochny result, sikn_1208 the day's suzun,
\* lodochny and CPPN_1 results, TSTN the day's sikn_1208, lodochny, kchng and
\* suzun results, and the day's row is made of these results.
C13_SameIterationOutputs ==
    (pc = "ready" /\ Len(result_rows) > 0) =>
        SameIterationOutputs(get_day(today)[Len(result_rows)],
                             StagesOfDay(Len(result_rows)),
                             result_rows[Len(result_rows)])

\* a day whose lodochny result differs from the one of the day before, consumed
\* by CPPN_1 on that day
C13_Witness ==
    /\ pc = "ready"
    /\ Len(result_rows) > 1
    /\ StagesOfDay(Len(result_rows)).lodochny_results.G_sikn_tagul
         # StagesOfDay(Len(result_rows) - 1).lodochny_results.G_sikn_tagul
    /\ C13_SameIterationOutputs

C19_NoDateColumn ==
    "date" \notin master_df.columns =>
        /\ pc \in {"start", "raised"}
        /\ IsNone(monthly_cache) /\ IsNone(master_df_indexed)
        /\ IsNone(input_config_cache) /\ IsNone(inputs_config)
        /\ warning_cache = {}
        /\ result_rows = <<>>
        /\ ~alarm_flag /\ IsNone(alarm_msg)
        /\ IsNone(output)

\* main has raised on a Source without a date column
C19_Witness == "date" \notin master_df.columns /\ pc = "raised"

\* C20: when input.json cannot be parsed, both loaders yield the empty
\* configuration and the run proceeds: every stage parameter is its default,
\* no manual value and no manual correction exists, and every field is
\* resolved from the Source or its default.
C20_UnparsedConfig ==
    ~input_json.ok =>
        /\ get_input_config = EmptyDict /\ load_config = EmptyDict
        /\ input_config_cache \in {None, Some(EmptyDict)}
        /\ inputs_config \in {None, Some(EmptyDict)}
        /\ "date" \in master_df.columns => pc # "raised"
        /\ \A k \in {"G_payaha", "G_suzun_tng", "K_g_suzun"} : get_suzun_inputs[k] = 0
        /\ \A k \in {"G_ichem", "K_otkachki", "K_gupn_lodochny", "K_g_tagul"} :
                get_lodochny_inputs[k] = 0
        /\ get_sikn_1208_inputs.K_delte_g_sikn = 0
        /\ \A k \in DOMAIN get_TSTN_inputs : get_TSTN_inputs[k] = 0
        /\ \A k \in {"manual_V_upn_suzun", "manual_V_suzun_vslu"} : IsNone(get_suzun_inputs[k])
        /\ \A k \in {"manual_V_upn_lodochny", "manual_G_sikn_tagul", "manual_V_tagul"} :
                IsNone(get_lodochny_inputs[k])
        /\ \A k \in DOMAIN get_cppn_1_inputs : IsNone(get_cppn_1_inputs[k])
        /\ \A k \in DOMAIN get_rn_vankor_inputs : IsNone(get_rn_vankor_inputs[k])
        /\ \A k \in {"V_upsv_yu", "V_tstn_skn"} : IsNone(get_validation_value(k))
        /\ \A b \in {"suzun_vankor", "vo", "kchng"} :
                get_delivery_period(b) = DefaultDeliveryPeriod
        /\ pc \in {"ready", "done"} =>
                /\ \A c \in StageMonthColumns \cup SiknMonthColumns :
                        safe_get_month_values(today, c) =
                            Return(ColumnValues(MonthSlice(master_df, today), c))
                /\ \A c \in StageDayColumns, d \in {1, monthrange(today)} :
                        safe_get_day_value(Date(today, d), c) =
                            DaySource(master_df, Date(today, d), c, 0)

\* a run with an unparseable input.json has processed every day and exported
C20_Witness ==
    /\ ~input_json.ok
    /\ pc = "done"
    /\ Len(result_rows) = monthrange(today)
    /\ ~IsNone(output)
    /\ inputs_config = Some(EmptyDict) /\ input_config_cache = Some(EmptyDict)

\* the tank levels sikn_1208 is given are the ones CPPN_1 returned
SiknTanksFromCPPN_1(st) ==
    /\ st.sikn_1208_data.V_upsv_yu = st.cppn1_results.V_upsv_yu
    /\ st.sikn_1208_data.V_upsv_s = st.cppn1_results.V_upsv_s
    /\ st.sikn_1208_data.V_upsv_cps = st.cppn1_results.V_upsv_cps
    /\ st.sikn_1208_data.V_cppn_1 = st.cppn1_results.V_cppn_1

\* C24: on every day the V_upsv_yu, V_upsv_s and V_upsv_cps that sikn_1208 uses
\* for G_sikn are the values CPPN_1 returned for that day, the ones V_cppn_1 is
\* the sum of.
C24_SiknUsesCPPN_1 ==
    (pc = "ready" /\ Len(result_rows) > 0) =>
        SiknTanksFromCPPN_1(StagesOfDay(Len(result_rows)))

\* the previous-day levels and the carry-over arrays of sikn_1208 are resolved
\* for the previous day of n and for the month of n
SiknArgumentsBound(n, st) ==
    /\ st.sikn_1208_data.V_upsv_yu_prev = st.cppn1_data.V_upsv_yu_prev
    /\ st.sikn_1208_data.V_upsv_s_prev = st.cppn1_data.V_upsv_s_prev
    /\ st.sikn_1208_data.V_upsv_cps_prev = st.cppn1_data.V_upsv_cps_prev
    /\ st.sikn_1208_data.G_sikn_data = MonthOf(n.month, "sikn_data")
    /\ st.sikn_1208_data.G_sikn_suzun_data = MonthOf(n.month, "sikn_suzun_data")
    /\ st.sikn_1208_data.G_suzun_sikn_data = MonthOf(n.month, "suzun_sikn_data")
    /\ st.sikn_1208_data.G_suzun_tng_data = MonthOf(n.month, "suzun_tng_data")
    /\ st.sikn_1208_data.G_sikn_vankor_data = MonthOf(n.month, "sikn_vankor_data")
    /\ st.sikn_1208_data.G_skn_data = MonthOf(n.month, "skn_data")

\* C26: on every day prepare_sikn_1208_data resolves its previous-day levels
\* for the date prepare_cppn1_data uses and its carry-over arrays for the
\* current month.
C26_SiknArguments ==
    (pc = "ready" /\ Len(result_rows) > 0) =>
        SiknArgumentsBound(get_day(today)[Len(result_rows)], StagesOfDay(Len(result_rows)))

-----------------------------------------------------------------------------
(* The stages called one at a time, with flags and inputs of the caller's   *)
(* choice; the driver makes one call and stops                              *)

\* input.json with and without a manual correction for every validated stock
StageCorrections ==
    [k \in {"V_upsv_yu", "V_upsv_s", "V_upsv_cps", "V_gnsp", "V_nps_1", "V_nps_2", "V_knsp",
            "V_tstn_tagul", "V_tstn_lodochny"} |-> Some(T(5000) + Scale \div 2)]

StageDocs ==
    {StageParams, ("manual_corrections" :> StageCorrections) @@ StageParams}
    \cup {("validation" :> [auto_replace_K_otkachki |-> b]) @@ StageParams : b \in BOOLEAN}

\* the offsets from the previous day's value that a manual tank level is given
TankOffsets ==
    {0 - T(2001), 0 - T(2000), 0 - T(1501), 0 - T(1500), 0, T(1500), T(1501), T(2000), T(2001),
     T(3300), T(3301), T(4000), T(4001)}

InitStage ==
    /\ today \in Months
    /\ input_json \in {[ok |-> TRUE, doc |-> d] : d \in StageDocs}
    /\ master_df = Source(today, [stock |-> T(5000), step |-> T(100), carry |-> T(10)])
    /\ input_config_cache = None
    /\ master_df_indexed = Some(master_df)
    /\ monthly_cache = Some(BuildMonthlyCache(master_df))
    /\ warning_cache = {}
    /\ inputs_config = None
    /\ result_rows = <<>>
    /\ alarm_flag = FALSE
    /\ alarm_msg = None
    /\ output = None
    /\ pc = "ready"
    /\ ret = NoCall

\* a manual level at an offset from the previous day's value, or none
ManualLevel(prev, off) == IF IsNone(off) THEN None ELSE Some(prev + Val(off))

\* one call CPPN_1(**cppn1_data, **cppn1_inputs) with the day's data, the given
\* flags and the given manual levels
CallCPPN_1(flag_list, off) ==
    /\ pc = "ready"
    /\ LET n == Date(today, 2)
           d == [prepare_cppn1_data(n, prev_day_of(n), prev_month_of(n),
                                    [G_sikn_tagul |-> T(40)])
                 EXCEPT !.flag_list = flag_list]
           inp == [manual_V_upsv_yu |-> ManualLevel(d.V_upsv_yu_prev, off),
                   manual_V_upsv_s |-> ManualLevel(d.V_upsv_s_prev, off),
                   manual_V_upsv_cps |-> ManualLevel(d.V_upsv_cps_prev, off)]
       IN ret' = [fn |-> "CPPN_1", d |-> d, inp |-> inp, out |-> CPPN_1(d, inp)]
    /\ pc' = "called"
    /\ input_config_cache' = Some(get_input_config)
    /\ inputs_config' = Some(load_config)
    /\ UNCHANGED <<envVars, master_df_indexed, monthly_cache, warning_cache, result_rows,
                   alarm_flag, alarm_msg, output>>

\* one call TSTN(**TSTN_data, **TSTN_inputs) with the day's data from the
\* Source, the given flags and the given receipts of the earlier stages
CallTSTN(flag_list, G_sikn, G_tagul) ==
    /\ pc = "ready"
    /\ LET n == Date(today, 2)
           d == [prepare_TSTN_data(n, prev_day_of(n), prev_month_of(n), n.month,
                                   monthrange(n.month),
                                   [G_sikn |-> G_sikn, G_sikn_tagul |-> T(40)],
                                   [G_tagul |-> G_tagul, G_upn_lodochny |-> T(30)],
                                   [G_kchng |-> T(30)],
                                   [G_suzun_vslu |-> T(500), G_buy_day |-> T(90),
                                    G_per |-> T(10), G_suzun_slu |-> T(600)],
                                   get_lodochny_inputs.G_ichem, get_suzun_inputs.G_suzun_tng)
                 EXCEPT !.flag_list = flag_list]
       IN ret' = [fn |-> "TSTN", d |-> d, inp |-> get_TSTN_inputs,
                  out |-> TSTN(d, get_TSTN_inputs)]
    /\ pc' = "called"
    /\ input_config_cache' = Some(get_input_config)
    /\ inputs_config' = Some(load_config)
    /\ UNCHANGED <<envVars, master_df_indexed, monthly_cache, warning_cache, result_rows,
                   alarm_flag, alarm_msg, output>>

\* one call lodochny(**lodochny_data, **lodochny_inputs) with the day's data
\* from the Source and the given configured coefficient
CallLodochny(K_otkachki) ==
    /\ pc = "ready"
    /\ LET n == Date(today, 2)
       IN ret' = [fn |-> "lodochny",
                  d |-> prepare_lodochny_data(n, n.month, prev_day_of(n), prev_month_of(n),
                                              monthrange(n.month), n.day, [G_kchng |-> T(30)]),
                  inp |-> [get_lodochny_inputs EXCEPT !.K_otkachki = K_otkachki],
                  out |-> lodochny(prepare_lodochny_data(n, n.month, prev_day_of(n),
                                                         prev_month_of(n), monthrange(n.month),
                                                         n.day, [G_kchng |-> T(30)]),
                                   [get_lodochny_inputs EXCEPT !.K_otkachki = K_otkachki])]
    /\ pc' = "called"
    /\ input_config_cache' = Some(get_input_config)
    /\ inputs_config' = Some(load_config)
    /\ UNCHANGED <<envVars, master_df_indexed, monthly_cache, warning_cache, result_rows,
                   alarm_flag, alarm_msg, output>>

\* the configured coefficients: at the coefficient of the month before (0.1),
\* near it on both sides of the tolerance, and far from it
Coefficients ==
    {0, Scale \div 10 - Scale \div 50, Scale \div 10 - Scale \div 200, Scale \div 10,
     Scale \div 10 + Scale \div 200, Scale \div 10 + Scale \div 50, Scale \div 2}

\* A variant of the range check written with "and"; the dead-branch property
\* must reject it.
AbsoluteRange_And(min, x, max) ==
    IF min <= x /\ x <= max THEN "passed"
    ELSE IF x < min THEN "below minimum"
    ELSE IF x > max THEN "above maximum"
    ELSE "silent"

\* rn_vankor_proverka, lines 1019-1025 (and every check of the same shape up to
\* line 1293): the message an absolute-range check prints
AbsoluteRange(min, x, max) ==
    IF min <= x \/ x <= max THEN "passed"
    ELSE IF x < min THEN "below minimum"
    ELSE IF x > max THEN "above maximum"
    ELSE "silent"

\* the stocks rn_vankor_proverka checks against an absolute range
RangeChecks ==
    {"upsv_yu", "upsv_s", "cps", "upn_suzun", "upn_lodochny", "tagul_tr", "gnps", "nps_1",
     "nps_2", "knps", "ichem", "ctn_vn", "ctn_suzun", "ctn_suzun_vankor", "ctn_suzun_vsly",
     "ctn_tagul_obch", "ctn_lodochny", "ctn_tagul", "ctn_skn", "ctn_vo", "ctn_tng",
     "ctn_kchng"}
RangeValues == {T(1), T(2), T(3)}

\* one call of rn_vankor_proverka, seen through one of its absolute-range
\* checks: the limits and the stock it is given and the message it prints
CallRnVankorProverka(check, min, x, max) ==
    /\ pc = "ready"
    /\ ret' = [fn |-> "rn_vankor_proverka", check |-> check, min |-> min, x |-> x,
               max |-> max, out |-> AbsoluteRange(min, x, max)]
    /\ pc' = "called"
    /\ UNCHANGED <<envVars, dpVars, runVars>>

\* the receipts a TSTN call is given
SiknReceipts == {0 - T(3000), 0 - T(1800), 0, T(1200), T(1800), T(2800), T(3500)}
TagulReceipts == {0 - T(4000), 0, T(1000), T(6500)}

NextStage ==
    \/ \E flag_list \in [1..3 -> {0, 1}], off \in {None} \cup {Some(o) : o \in TankOffsets} :
          CallCPPN_1(flag_list, off)
    \/ \E f \in [1..3 -> {0, 1}], G_sikn \in SiknReceipts, G_tagul \in TagulReceipts :
          CallTSTN(<<f[1], f[2], f[3], 0>>, G_sikn, G_tagul)
    \/ \E K_otkachki \in Coefficients : CallLodochny(K_otkachki)
    \/ \E check \in RangeChecks, min \in RangeValues, x \in RangeValues, max \in RangeValues :
          CallRnVankorProverka(check, min, x, max)

SpecStage == InitStage /\ [][NextStage]_vars

\* the validated tanks of the last CPPN_1 call: the flag, the value before
\* validation, the previous value and the value returned
TanksOfCall ==
    {[key |-> "V_upsv_yu", flag |-> ret.d.flag_list[1], prev |-> ret.d.V_upsv_yu_prev,
      computed |-> CPPN_1_computed(ret.d, ret.inp).V_upsv_yu, out |-> ret.out.V_upsv_yu],
     [key |-> "V_upsv_s", flag |-> ret.d.flag_list[2], prev |-> ret.d.V_upsv_s_prev,
      computed |-> CPPN_1_computed(ret.d, ret.inp).V_upsv_s, out |-> ret.out.V_upsv_s],
     [key |-> "V_upsv_cps", flag |-> ret.d.flag_list[3], prev |-> ret.d.V_upsv_cps_prev,
      computed |-> CPPN_1_computed(ret.d, ret.inp).V_upsv_cps, out |-> ret.out.V_upsv_cps]}

\* the stocks of the last TSTN call that are validated against a band chosen
\* by a flag
StocksOfCall ==
    {[key |-> "V_gnsp", flag |-> ret.d.flag_list[1], prev |-> ret.d.V_gnsp_prev,
      band |-> T(1500), computed |-> TSTN_steps(ret.d, ret.inp).computed.V_gnsp,
      out |-> ret.out.V_gnsp],
     [key |-> "V_nps_1", flag |-> ret.d.flag_list[2], prev |-> ret.d.V_nps_1_prev,
      band |-> T(700), computed |-> TSTN_steps(ret.d, ret.inp).computed.V_nps_1,
      out |-> ret.out.V_nps_1],
     [key |-> "V_nps_2", flag |-> ret.d.flag_list[2], prev |-> ret.d.V_nps_2_prev,
      band |-> T(700), computed |-> TSTN_steps(ret.d, ret.inp).computed.V_nps_2,
      out |-> ret.out.V_nps_2],
     [key |-> "V_knsp", flag |-> ret.d.flag_list[3], prev |-> ret.d.V_knps_prev,
      band |-> T(1500), computed |-> TSTN_steps(ret.d, ret.inp).computed.V_knsp,
      out |-> ret.out.V_knsp]}

\* what the handling of a violation yields: the manual correction when there is
\* one, the computed value otherwise
Corrected(key, computed) ==
    IF ~IsNone(get_validation_value(key)) THEN int(Val(get_validation_value(key)))
    ELSE computed

\* C21: in CPPN_1 and TSTN, whichever band the flag of the facility selects, a
\* value outside the selected band is replaced by the manual correction of the
\* field when there is one and kept otherwise.
C21_ViolationHandling ==
    /\ ret.fn = "CPPN_1" =>
        \A t \in TanksOfCall :
            ~InBand(t.computed, TankBand(t.flag, t.key, t.prev).lo,
                    TankBand(t.flag, t.key, t.prev).hi)
                => t.out = Corrected(t.key, t.computed)
    /\ ret.fn = "TSTN" =>
        \A t \in StocksOfCall :
            ~InBand(t.computed, StockBand(t.flag, t.key, t.prev, t.band).lo,
                    StockBand(t.flag, t.key, t.prev, t.band).hi)
                => t.out = Corrected(t.key, t.computed)

\* C22: for the tanks of CPPN_1 and the stocks of TSTN, a value inside the
\* normal band around the previous value is inside the "stopped" band too.
C22_BandsNested ==
    /\ ret.fn = "CPPN_1" =>
        \A t \in TanksOfCall :
            InBand(t.computed, TankBand(0, t.key, t.prev).lo, TankBand(0, t.key, t.prev).hi)
                => InBand(t.computed, TankBand(1, t.key, t.prev).lo,
                          TankBand(1, t.key, t.prev).hi)
    /\ ret.fn = "TSTN" =>
        \A t \in StocksOfCall :
            InBand(t.computed, StockBand(0, t.key, t.prev, t.band).lo,
                   StockBand(0, t.key, t.prev, t.band).hi)
                => InBand(t.computed, StockBand(1, t.key, t.prev, t.band).lo,
                          StockBand(1, t.key, t.prev, t.band).hi)

\* a CPPN_1 call whose UPSV-Yug level sits on the lower edge of the normal band
C22_Witness ==
    /\ ret.fn = "CPPN_1"
    /\ \E t \in TanksOfCall :
         /\ t.key = "V_upsv_yu" /\ t.flag = 1 /\ t.computed = t.prev - NormalBand
         /\ t.out = t.computed

\* the coefficient the last lodochny call has to use: the one of the month
\* before when it differs from the configured one by the tolerance or more
KOtkachkiOfCall ==
    IF Abs(ret.inp.K_otkachki - ret.out.K_otkachki_month) >= KOtkachkiTolerance
    THEN ret.out.K_otkachki_month
    ELSE ret.inp.K_otkachki

\* C27: lodochny computes G_lodochny_uspv_yu and G_upn_lodochny with the
\* coefficient of the month before whenever it differs from the configured one
\* by 0.01 or more, and with the configured one otherwise, whatever
\* validation.auto_replace_K_otkachki says.
C27_FlagIsIgnored ==
    ret.fn = "lodochny" =>
        /\ ret.out.G_lodochny_uspv_yu =
               MulK(ret.d.Q_lodochny_day, Scale - KOtkachkiOfCall)
               - Half(ret.inp.K_gupn_lodochny)
        /\ ret.out.G_upn_lodochny =
               MulK(ret.d.Q_lodochny_day, KOtkachkiOfCall)
               - (ret.out.V_upn_lodochny - ret.d.V_upn_lodochny_prev)
               - Half(ret.inp.K_gupn_lodochny) + ret.d.Q_vo_day

\* a call with the flag given as false and a configured coefficient that is
\* replaced
C27_Witness ==
    /\ ret.fn = "lodochny"
    /\ SectionGet("validation", "auto_replace_K_otkachki", TRUE) = FALSE
    /\ KOtkachkiOfCall # ret.inp.K_otkachki
    /\ ret.d.Q_lodochny_day > 0
    /\ C27_FlagIsIgnored

\* the level a tank has before validation when the override is honoured: the
\* manual level when one is supplied, the previous day's level otherwise
TankLevel(manual, prev) == IF ~IsNone(manual) THEN Val(manual) ELSE prev

\* C28: in CPPN_1 a supplied manual level becomes the level of its tank before
\* validation, for each of the three tanks alike, and without one the level is
\* the previous day's; with the flag of the tank set nothing replaces that
\* level, so it is the level returned.
C28_ManualLevels ==
    ret.fn = "CPPN_1" =>
        /\ ret.d.flag_list[1] = 1 =>
              ret.out.V_upsv_yu = TankLevel(ret.inp.manual_V_upsv_yu, ret.d.V_upsv_yu_prev)
        /\ ret.d.flag_list[2] = 1 =>
              ret.out.V_upsv_s = TankLevel(ret.inp.manual_V_upsv_s, ret.d.V_upsv_s_prev)
        /\ ret.d.flag_list[3] = 1 =>
              ret.out.V_upsv_cps = TankLevel(ret.inp.manual_V_upsv_cps, ret.d.V_upsv_cps_prev)

\* C30: in every result of TSTN, V_tstn_tagul_obsh is the returned V_tstn_tagul
\* plus the returned V_tstn_lodochny.
C30_TagulTotal ==
    ret.fn = "TSTN" =>
        ret.out.V_tstn_tagul_obsh = ret.out.V_tstn_tagul + ret.out.V_tstn_lodochny

\* C25 as stated: an absolute-range check of rn_vankor_proverka whose minimum
\* is above its maximum passes for every stock, so the branch with the
\* below-minimum and above-maximum messages is never reached.
C25_AlwaysTrueWhenCrossed ==
    (ret.fn = "rn_vankor_proverka" /\ ret.min > ret.max) => ret.out = "passed"

\* C25, amended: an absolute-range check of rn_vankor_proverka whose minimum is
\* not above its maximum passes for every stock, so its messages are never
\* reached; with the minimum above the maximum the check fails exactly for the
\* stocks strictly between the two, and reports them as below the minimum.
C25_DeadBranch ==
    ret.fn = "rn_vankor_proverka" =>
        /\ ret.min <= ret.max => ret.out = "passed"
        /\ ret.min > ret.max =>
              /\ ret.out = "passed" <=> ~(ret.max < ret.x /\ ret.x < ret.min)
              /\ ret.out \in {"passed", "below minimum"}

\* a stock below the minimum of a well-formed range, which the check passes
C25_Witness ==
    /\ ret.fn = "rn_vankor_proverka"
    /\ ret.min <= ret.max
    /\ ret.x < ret.min
    /\ ret.out = "passed"

====
